---- MODULE Spec2Model ----
(***************************************************************************)
(* A model of tmthrgd/gzipbuilder: the builder state machine of            *)
(* builder.go, the stored-block framer, the precompressed producer and the *)
(* CRC32 combiner.                                                         *)
(*                                                                         *)
(* The builder is a record b with the fields of the Go struct; every       *)
(* method is an operator from records to records that follows the method   *)
(* statement by statement, and every action applies one public method to   *)
(* the record held in the variables.                                       *)
(*                                                                         *)
(* The sink is a sequence of natural numbers.  An element below 256 is a   *)
(* byte.  The output of the DEFLATE encoder (compress/flate, an external   *)
(* collaborator) is kept symbolically: a compressed block is the element   *)
(* BlockBase + n followed by n LZ77 tokens, a token being LitBase + v for  *)
(* the literal byte v or RefBase + d for a back-reference to the byte d    *)
(* positions back in the decoded output.                                   *)
(***************************************************************************)
EXTENDS Integers, Sequences, FiniteSets, TLC

----------------------------------------------------------------------------
(* Bounds of the model.                                                    *)

\* The stored-block length limit.  The source has maxLength = ^uint16(0);
\* the model keeps every 16-bit field at its width and scales only this
\* limit down, so that payloads longer than one block can be enumerated.
maxLength == 2

\* The longest byte slice handed to one append call.
MaxData == 4

\* The total number of payload bytes appended to one builder.
MaxTotal == 4

\* The capacity of the pooled bufio.Writer (1024 in the source), scaled.
bufioSize == 12

\* The underlying io.Writer of a Writer fails after 0..MaxWrLeft successful
\* writes, or never.
MaxWrLeft == 0

\* Builders sharing the pools: the number of calls made on one builder.
MaxCalls == 2

\* The number of calls made on one PrecompressedWriter.
MaxPwCalls == 5

\* Templates: the number of tags and the length of a text between tags.  A
\* tag's value has up to maxLength + 2 bytes.
MaxTags == 2
MaxText == 1

----------------------------------------------------------------------------
(* Program constants.                                                      *)

HuffmanOnly == -2
DefaultCompression == -1
NoCompression == 0
BestSpeed == 1
BestCompression == 9

\* The level the tests use for an invalid level.
InvalidLevel == -100

\* A uint32 is a pair <<low 16 bits, high 16 bits>>: the model checker's integers
\* are 32-bit signed, so a 32-bit unsigned value is kept as two limbs.
Pow8 == 2 ^ 8
Pow16 == 2 ^ 16

IEEE == <<33568, 60856>>  \* crc32.IEEE, 0xedb88320

closeFooter == <<1, 0, 0, 255, 255>>

packUncompressedData == TRUE

\* sectionType
start == 0
header == 1
precompressed == 2
compressed == 3
uncompressed == 4
finished == 5

\* error values
NoErr == "nil"
ErrOption == "gzipbuilder: setting options must be done before writing"
ErrFinished == "gzipbuilder: cannot modify Builder after Bytes called"
ErrMismatch == "gzipbuilder: compression level mismatch"
\* fmt.Errorf("flate: invalid compression level %d: want value in range [%d, %d]", ...)
ErrLevel(lv) ==
  "flate: invalid compression level " \o ToString(lv)
  \o ": want value in range [" \o ToString(HuffmanOnly)
  \o ", " \o ToString(BestCompression) \o "]"
ErrIO == "io error"
ErrTooLong == "input data too long"

\* The payload bytes the caller appends are consecutive slices of one fixed
\* stream: the builder's control flow depends on lengths only, the content
\* matters to the encoder's back-references and to the CRC.
Stream == <<97, 98, 97, 165, 98, 97, 97, 165>>

----------------------------------------------------------------------------
(* Integer helpers.                                                        *)

RECURSIVE Xor(_, _)
Xor(a, b) ==
  IF a = 0 THEN b
  ELSE IF b = 0 THEN a
  ELSE (((a % 2) + (b % 2)) % 2) + (2 * Xor(a \div 2, b \div 2))

Min(a, b) == IF a < b THEN a ELSE b

\* uint16(n), ^uint16(n)
U16(n) == n % Pow16
Not16(n) == (Pow16 - 1) - U16(n)

\* uint32 values, as limbs
Zero32 == <<0, 0>>
U32(n) == <<n % Pow16, (n \div Pow16) % Pow16>>
Xor32(x, y) == <<Xor(x[1], y[1]), Xor(x[2], y[2])>>
Not32(x) == <<(Pow16 - 1) - x[1], (Pow16 - 1) - x[2]>>
Add32(x, y) ==
  LET lo == x[1] + y[1]
  IN <<lo % Pow16, (x[2] + y[2] + (lo \div Pow16)) % Pow16>>
Shr32(x, k) == <<(x[1] \div k) + ((x[2] % k) * (Pow16 \div k)), x[2] \div k>>

\* binary.LittleEndian.PutUint16 / PutUint32
LE16(n) == <<U16(n) % Pow8, U16(n) \div Pow8>>
LE32(x) == LE16(x[1]) \o LE16(x[2])

Take(s, n) == SubSeq(s, 1, Min(n, Len(s)))
Drop(s, n) == SubSeq(s, Min(n, Len(s)) + 1, Len(s))

----------------------------------------------------------------------------
(* hash/crc32: the table-driven update.                                    *)

RECURSIVE crcBits(_, _, _)
crcBits(c, poly, n) ==
  IF n = 0 THEN c
  ELSE crcBits(IF c[1] % 2 = 1 THEN Xor32(Shr32(c, 2), poly) ELSE Shr32(c, 2),
               poly, n - 1)

IEEETable == [i \in 0..255 |-> crcBits(<<i, 0>>, IEEE, 8)]

RECURSIVE crcLoop(_, _, _)
crcLoop(c, p, i) ==
  IF i > Len(p) THEN c
  ELSE crcLoop(Xor32(IEEETable[Xor(c[1] % Pow8, p[i])], Shr32(c, Pow8)), p, i + 1)

\* crc32.Update(crc, crc32.IEEETable, p)
crc32Update(crc, p) == Not32(crcLoop(Not32(crc), p, 1))

----------------------------------------------------------------------------
(* The CRC32 combiner (section 4.3 of the specification).  A 32x32 matrix  *)
(* over GF(2) is the sequence of its 32 columns, each a uint32.            *)

Bit32(x, k) == IF k < 16 THEN (x[1] \div (2 ^ k)) % 2 ELSE (x[2] \div (2 ^ (k - 16))) % 2
Unit32(k) == IF k < 16 THEN <<2 ^ k, 0>> ELSE <<0, 2 ^ (k - 16)>>

\* vector x matrix over GF(2): the XOR of the columns mat[k+1] over the set
\* bits k of vec, lo <= k <= hi
RECURSIVE gf2TimesRange(_, _, _, _)
gf2TimesRange(mat, vec, lo, hi) ==
  IF lo = hi THEN (IF Bit32(vec, lo) = 1 THEN mat[lo + 1] ELSE Zero32)
  ELSE LET mid == (lo + hi) \div 2
       IN Xor32(gf2TimesRange(mat, vec, lo, mid),
                gf2TimesRange(mat, vec, mid + 1, hi))

gf2Times(mat, vec) == gf2TimesRange(mat, vec, 0, 31)

RECURSIVE gf2SquareCols(_, _, _)
gf2SquareCols(mat, lo, hi) ==
  IF lo = hi THEN <<gf2Times(mat, mat[lo])>>
  ELSE LET mid == (lo + hi) \div 2
       IN gf2SquareCols(mat, lo, mid) \o gf2SquareCols(mat, mid + 1, hi)

gf2Square(mat) == gf2SquareCols(mat, 1, 32)

\* M: "shift the CRC32 register by one zero byte" under poly
RECURSIVE zeroByteCols(_, _, _)
zeroByteCols(poly, lo, hi) ==
  IF lo = hi THEN <<crcBits(Unit32(lo - 1), poly, 8)>>
  ELSE LET mid == (lo + hi) \div 2
       IN zeroByteCols(poly, lo, mid) \o zeroByteCols(poly, mid + 1, hi)

zeroByteOp(poly) == zeroByteCols(poly, 1, 32)

\* precomputeCRC32(crc32.IEEE): M, M^2, M^4, M^8, the powers M^(2^k) that the
\* model's segment lengths need (the specification derives them up to k = 64)
crc32Mat0 == zeroByteOp(IEEE)
crc32Mat1 == gf2Square(crc32Mat0)
crc32Mat2 == gf2Square(crc32Mat1)
crc32Mat3 == gf2Square(crc32Mat2)

crc32Mat == <<crc32Mat0, crc32Mat1, crc32Mat2, crc32Mat3>>

\* crc1 * M^len2, by square-and-multiply over the bits of len2
RECURSIVE crcShift(_, _, _, _)
crcShift(mat, crc1, len2, k) ==
  IF len2 = 0 THEN crc1
  ELSE IF len2 % 2 = 1
       THEN crcShift(mat, gf2Times(mat[k], crc1), len2 \div 2, k + 1)
       ELSE crcShift(mat, crc1, len2 \div 2, k + 1)

combineCRC32(mat, crc1, crc2, len2) == Xor32(crcShift(mat, crc1, len2, 1), crc2)

----------------------------------------------------------------------------
(* The sink: a *bytes.Buffer (NewBuilder), or the pooled *bufio.Writer in  *)
(* front of the caller's io.Writer (NewWriter).                            *)
(*   out   the bytes in the bytes.Buffer, or received by the io.Writer     *)
(*   buf   the bytes held in the bufio.Writer                              *)
(*   werr  the bufio.Writer's sticky error                                 *)
(*   left  the number of writes the io.Writer still accepts (NoLimit: all) *)

KBuffer == "bytes.Buffer"
KBufio == "bufio.Writer"
KNil == "nil"

NoLimit == 0 - 1

newSink(kind, left) ==
  [kind |-> kind, out |-> <<>>, buf |-> <<>>, werr |-> NoErr, left |-> left]

\* every byte the sink has accepted, in order
Written(w) == w.out \o w.buf

Available(w) == bufioSize - Len(w.buf)

\* the caller's io.Writer: it takes the whole slice, or fails taking nothing
wrWrite(w, p) ==
  IF w.left = 0 THEN [w EXCEPT !.werr = ErrIO]
  ELSE [w EXCEPT !.out = @ \o p, !.left = IF @ > 0 THEN @ - 1 ELSE @]

\* bufio.Writer.Flush
bufioFlush(w) ==
  IF w.werr # NoErr \/ Len(w.buf) = 0 THEN w
  ELSE LET w1 == wrWrite([w EXCEPT !.buf = <<>>], w.buf)
       IN IF w1.werr # NoErr THEN [w1 EXCEPT !.buf = w.buf] ELSE w1

\* bufio.Writer.Write
RECURSIVE bufioWrite(_, _)
bufioWrite(w, p) ==
  IF Len(p) > Available(w) /\ w.werr = NoErr
  THEN IF Len(w.buf) = 0
       THEN bufioWrite(wrWrite(w, p), <<>>)
       ELSE bufioWrite(bufioFlush([w EXCEPT !.buf = @ \o Take(p, Available(w))]),
                       Drop(p, Available(w)))
  ELSE IF w.werr # NoErr THEN w
  ELSE [w EXCEPT !.buf = @ \o p]

\* b.w.Write(p); the error it returns is sinkErr of the result
sinkWrite(w, p) ==
  IF w.kind = KBuffer THEN [w EXCEPT !.out = @ \o p] ELSE bufioWrite(w, p)

sinkErr(w) == w.werr

----------------------------------------------------------------------------
(* compress/flate.Writer, kept symbolically.                               *)
(*   id    which flate.Writer it is: the pooled ones are numbered as       *)
(*         flateWriterGet makes them, 0 is one made elsewhere              *)
(*   hist  the bytes compressed since the last Reset (the LZ77 window)     *)
(*   pend  the bytes written and not yet emitted                           *)

LitBase == Pow8
RefBase == 2 * Pow8
BlockBase == 4 * Pow8

syncMarker == <<0, 0, 0, 255, 255>>

NoFW == [live |-> FALSE, id |-> 0, hist |-> <<>>, pend |-> <<>>]
newFW == [live |-> TRUE, id |-> 0, hist |-> <<>>, pend |-> <<>>]

\* an encoder that an earlier builder used and put back into the pool
usedFW == [live |-> TRUE, id |-> 1, hist |-> <<165, 98, 97>>, pend |-> <<>>]

\* the distance back from the end of win to the latest occurrence of v (0: none)
RECURSIVE lastDist(_, _, _)
lastDist(win, v, d) ==
  IF d > Len(win) THEN 0
  ELSE IF win[Len(win) - d + 1] = v THEN d
  ELSE lastDist(win, v, d + 1)

\* the LZ77 tokens of p against the window win
RECURSIVE lzTokens(_, _)
lzTokens(win, p) ==
  IF Len(p) = 0 THEN <<>>
  ELSE LET d == lastDist(win, p[1], 1)
       IN <<IF d = 0 THEN LitBase + p[1] ELSE RefBase + d>>
          \o lzTokens(Append(win, p[1]), Tail(p))

\* the compressed block(s) for the pending bytes
fwEmit(fw) ==
  IF Len(fw.pend) = 0 THEN <<>>
  ELSE <<BlockBase + Len(fw.pend)>> \o lzTokens(fw.hist, fw.pend)

fwEmitted(fw) == [fw EXCEPT !.hist = @ \o fw.pend, !.pend = <<>>]

fwReset_KeepWindow(fw) == fw

\* fw.Reset(w)
fwReset(fw) == [fw EXCEPT !.hist = <<>>, !.pend = <<>>]

\* fw.Write(p): the encoder takes the bytes into its window
fwWrite(fw, p) == [fw EXCEPT !.pend = @ \o p]

----------------------------------------------------------------------------
(* A standard decoder: compress/flate's reader and compress/gzip's reader, *)
(* as the tests use them (decompressBytes).                                *)

IsByte(e) == e < LitBase

Corrupt == [ok |-> FALSE, out |-> <<>>, next |-> 0, finals |-> 0]

\* the tokens s[i..j] of a compressed block, decoded after out
RECURSIVE inflateTokens(_, _, _, _)
inflateTokens(s, i, j, out) ==
  IF i > j THEN [ok |-> TRUE, out |-> out]
  ELSE IF s[i] >= LitBase /\ s[i] < RefBase
       THEN inflateTokens(s, i + 1, j, Append(out, s[i] - LitBase))
  ELSE IF s[i] > RefBase /\ s[i] < BlockBase /\ s[i] - RefBase <= Len(out)
       THEN inflateTokens(s, i + 1, j, Append(out, out[Len(out) - (s[i] - RefBase) + 1]))
  ELSE [ok |-> FALSE, out |-> out]

\* the DEFLATE stream that starts at s[i], decoded block by block up to and
\* including the first block with BFINAL = 1
RECURSIVE inflate(_, _, _)
inflate(s, i, out) ==
  IF i > Len(s) THEN Corrupt
  ELSE IF s[i] >= BlockBase
  THEN LET n == s[i] - BlockBase
       IN IF i + n > Len(s) THEN Corrupt
          ELSE LET r == inflateTokens(s, i + 1, i + n, out)
               IN IF r.ok THEN inflate(s, i + n + 1, r.out) ELSE Corrupt
  ELSE IF s[i] \in {0, 1}
  THEN IF i + 4 > Len(s) THEN Corrupt
       ELSE IF \E k \in 1..4 : ~IsByte(s[i + k]) THEN Corrupt
       ELSE LET len == s[i + 1] + (Pow8 * s[i + 2])
                nlen == s[i + 3] + (Pow8 * s[i + 4])
            IN IF nlen # Not16(len) \/ i + 4 + len > Len(s) THEN Corrupt
               ELSE IF \E k \in 1..len : ~IsByte(s[i + 4 + k]) THEN Corrupt
               ELSE IF s[i] = 1
                    THEN [ok |-> TRUE, out |-> out \o SubSeq(s, i + 5, i + 4 + len),
                          next |-> i + 5 + len, finals |-> 1]
                    ELSE inflate(s, i + 5 + len, out \o SubSeq(s, i + 5, i + 4 + len))
  ELSE Corrupt

\* flate.NewReader + ReadAll: the whole of s is one DEFLATE stream
flateDecode(s) ==
  LET r == inflate(s, 1, <<>>)
  IN [ok |-> r.ok /\ r.next = Len(s) + 1, out |-> r.out]

\* gzip.NewReader + ReadAll + Close: one member, header, DEFLATE stream and a
\* footer whose CRC32 and ISIZE are verified, and nothing after it
gzipDecode(s) ==
  IF Len(s) < 10 \/ Take(s, 4) # <<31, 139, 8, 0>> THEN [ok |-> FALSE, out |-> <<>>]
  ELSE LET r == inflate(s, 11, <<>>)
       IN IF ~r.ok \/ r.next + 7 # Len(s) THEN [ok |-> FALSE, out |-> <<>>]
          ELSE [ok |-> SubSeq(s, r.next, r.next + 3) = LE32(crc32Update(Zero32, r.out))
                       /\ SubSeq(s, r.next + 4, r.next + 7) = LE32(U32(Len(r.out))),
                out |-> r.out]

\* the BFINAL bits of the blocks that make up s[i..j], in order; ok is FALSE
\* when s[i..j] is not a whole number of well-framed blocks
RECURSIVE blockFinals(_, _, _, _)
blockFinals(s, i, j, acc) ==
  IF i > j THEN [ok |-> TRUE, finals |-> acc]
  ELSE IF s[i] >= BlockBase
  THEN IF i + (s[i] - BlockBase) > j THEN [ok |-> FALSE, finals |-> acc]
       ELSE blockFinals(s, i + (s[i] - BlockBase) + 1, j, Append(acc, 0))
  ELSE IF s[i] \in {0, 1}
  THEN IF i + 4 > j THEN [ok |-> FALSE, finals |-> acc]
       ELSE LET len == s[i + 1] + (Pow8 * s[i + 2])
                nlen == s[i + 3] + (Pow8 * s[i + 4])
            IN IF nlen # Not16(len) \/ i + 4 + len > j THEN [ok |-> FALSE, finals |-> acc]
               ELSE blockFinals(s, i + 5 + len, j, Append(acc, s[i]))
  ELSE [ok |-> FALSE, finals |-> acc]

\* the LEN fields of the stored blocks among the blocks that make up s[i..j]
RECURSIVE storedLens(_, _, _, _)
storedLens(s, i, j, acc) ==
  IF i > j THEN acc
  ELSE IF s[i] >= BlockBase THEN storedLens(s, i + (s[i] - BlockBase) + 1, j, acc)
  ELSE storedLens(s, i + 5 + s[i + 1] + (Pow8 * s[i + 2]), j,
                  Append(acc, s[i + 1] + (Pow8 * s[i + 2])))

----------------------------------------------------------------------------
(* The builder.  b is the struct of builder.go together with the two       *)
(* package-level pools its methods use:                                    *)
(*   flatePools  flateWriterPools, the pooled encoders of each level        *)
(*   bufioPool   bufioWriterPool, the number of pooled bufio.Writers       *)
(*   made        the number of encoders flateWriterGet has made            *)
(* The scratch array only carries bytes from one statement to the next and *)
(* is not kept.                                                            *)

ValidLevels == HuffmanOnly..BestCompression

validCompressionLevel_UpperOpen(lv) ==
  IF lv >= HuffmanOnly THEN NoErr ELSE ErrLevel(lv)

validCompressionLevel(lv) ==
  IF lv >= HuffmanOnly /\ lv <= BestCompression THEN NoErr ELSE ErrLevel(lv)

newBuilder(w, lv) ==
  [level |-> lv, last |-> start, rawDeflate |-> FALSE,
   uncompLen |-> 0, uncompHeaderIdx |-> 0,
   w |-> w, fw |-> NoFW, size |-> Zero32, crc |-> Zero32,
   err |-> validCompressionLevel(lv),
   flatePools |-> [l \in ValidLevels |-> <<>>], bufioPool |-> 0, made |-> 0]

\* _, b.err = b.w.Write(p)
bWrite(b, p) ==
  LET w1 == sinkWrite(b.w, p)
  IN [b EXCEPT !.w = w1, !.err = sinkErr(w1)]

canSetOption_Overwrite(b) ==
  IF b.last # start THEN [b EXCEPT !.err = ErrOption] ELSE b

canSetOption_AfterHeader(b) ==
  IF b.last > header /\ b.err = NoErr THEN [b EXCEPT !.err = ErrOption] ELSE b

\* canSetOption: the builder after the call; it returns b.err == nil
canSetOption(b) ==
  IF b.last # start /\ b.err = NoErr THEN [b EXCEPT !.err = ErrOption] ELSE b

RawDeflate(b) ==
  LET b1 == canSetOption(b)
  IN IF b1.err # NoErr THEN b1 ELSE [b1 EXCEPT !.rawDeflate = TRUE]

canWrite_Never(b) == b

\* canWrite: the builder after the call; it returns b.err == nil
canWrite(b) ==
  IF b.last = finished /\ b.err = NoErr THEN [b EXCEPT !.err = ErrFinished] ELSE b

gzipHeader_SwappedXFL(lv) ==
  <<31, 139, 8, 0, 0, 0, 0, 0,
    IF lv = BestCompression THEN 4 ELSE IF lv = BestSpeed THEN 2 ELSE 0,
    255>>

gzipHeader(lv) ==
  <<31, 139, 8, 0, 0, 0, 0, 0,
    IF lv = BestCompression THEN 2 ELSE IF lv = BestSpeed THEN 4 ELSE 0,
    255>>

writeHeader_NoMark(b) ==
  IF b.err # NoErr \/ b.last # start \/ b.rawDeflate THEN b
  ELSE bWrite(b, gzipHeader(b.level))

writeHeader(b) ==
  IF b.err # NoErr \/ b.last # start THEN b
  ELSE LET b1 == [b EXCEPT !.last = header]
       IN IF b1.rawDeflate THEN b1 ELSE bWrite(b1, gzipHeader(b1.level))

flateWriterGet_NoReset(b) ==
  IF Len(b.flatePools[b.level]) > 0
  THEN [b EXCEPT !.flatePools[b.level] = Tail(@), !.fw = Head(b.flatePools[b.level])]
  ELSE [b EXCEPT !.fw = [newFW EXCEPT !.id = b.made + 1], !.made = @ + 1]

\* flateWriterGet(b.w, b.level): a pooled encoder is Reset, else a new one
flateWriterGet(b) ==
  IF Len(b.flatePools[b.level]) > 0
  THEN [b EXCEPT !.flatePools[b.level] = Tail(@),
                 !.fw = fwReset(Head(b.flatePools[b.level]))]
  ELSE [b EXCEPT !.fw = [newFW EXCEPT !.id = b.made + 1], !.made = @ + 1]

\* flateWriterPut(b.fw, b.level)
flateWriterPut(b) == [b EXCEPT !.flatePools[b.level] = Append(@, b.fw)]

\* b.err = b.fw.Flush(): the pending bytes as a compressed block, then the
\* empty stored block of a sync flush
fwFlush(b) ==
  LET w1 == sinkWrite(b.w, fwEmit(b.fw) \o syncMarker)
  IN [b EXCEPT !.w = w1, !.fw = fwEmitted(@), !.err = sinkErr(w1)]

fwClose_AsFlush(b) == fwFlush(b)

\* b.err = b.fw.Close(): the pending bytes, then the final empty stored block
fwClose(b) ==
  LET w1 == sinkWrite(b.w, fwEmit(b.fw) \o closeFooter)
  IN [b EXCEPT !.w = w1, !.fw = fwEmitted(@), !.err = sinkErr(w1)]

flushCompressed_Skip(b) == b

\* flushCompressed: the builder after the call; it returns b.err == nil
flushCompressed(b) == IF b.last = compressed THEN fwFlush(b) ELSE b

levelMismatch_NonEmpty(b, data) == data.size # 0 /\ b.level # data.level

\* if b.level != data.level
levelMismatch(b, data) == b.level # data.level

addPrecompressedSum_NoSize(b, data) ==
  IF ~b.rawDeflate
  THEN [b EXCEPT !.crc = combineCRC32(crc32Mat, @, data.crc, data.size)]
  ELSE b

\* if !b.rawDeflate { b.size += ...; b.crc = combineCRC32(...) }
addPrecompressedSum(b, data) ==
  IF ~b.rawDeflate
  THEN [b EXCEPT !.size = Add32(@, U32(data.size)),
                 !.crc = combineCRC32(crc32Mat, @, data.crc, data.size)]
  ELSE b

\* AddPrecompressedData from b.last = precompressed on, b the builder after
\* flushCompressed
splicePrecompressed(b, data) ==
  IF b.err # NoErr THEN b
  ELSE bWrite(addPrecompressedSum([b EXCEPT !.last = precompressed], data),
              data.bytes)

\* AddPrecompressedData from the level check on, b the builder after canWrite
checkPrecompressed(b, data) ==
  IF b.err # NoErr THEN b
  ELSE IF levelMismatch(b, data) THEN [b EXCEPT !.err = ErrMismatch]
  ELSE IF data.size = 0 THEN b
  ELSE splicePrecompressed(flushCompressed(b), data)

AddPrecompressedData(b, data) ==
  checkPrecompressed(canWrite(IF b.last = start THEN writeHeader(b) ELSE b), data)

resetOnEntry_Skip(b) == b

\* if b.last != compressed && b.fw != nil { b.fw.Reset(b.w) }
resetOnEntry(b) ==
  IF b.last # compressed /\ b.fw.live THEN [b EXCEPT !.fw = fwReset(@)] ELSE b

\* if b.fw == nil { b.fw = flateWriterGet(b.w, b.level) }
encoderOnDemand(b) == IF ~b.fw.live THEN flateWriterGet(b) ELSE b

addSum_Always(b, data) ==
  [b EXCEPT !.size = Add32(@, U32(Len(data))), !.crc = crc32Update(@, data)]

\* if !b.rawDeflate { b.size += uint32(len(data)); b.crc = crc32.Update(...) }
addSum(b, data) ==
  IF ~b.rawDeflate
  THEN [b EXCEPT !.size = Add32(@, U32(Len(data))),
                 !.crc = crc32Update(@, data)]
  ELSE b

\* AddCompressedData after its guard, b the builder after canWrite
compressData(b, data) ==
  IF b.err # NoErr \/ Len(data) = 0 THEN b
  ELSE [addSum(encoderOnDemand([resetOnEntry(b) EXCEPT !.last = compressed]), data)
          EXCEPT !.fw = fwWrite(@, data), !.err = NoErr]

AddCompressedData(b, data) ==
  compressData(canWrite(IF b.last = start THEN writeHeader(b) ELSE b), data)

\* zeroWrite after the block header, b the builder after that write
zeroWriteData(b, p) == IF b.err # NoErr THEN b ELSE bWrite(b, p)

zeroWrite(b, p) ==
  zeroWriteData(bWrite(b, <<0>> \o LE16(Len(p)) \o LE16(Not16(Len(p)))), p)

packUncompressed_Off(b, data) == [b |-> b, data |-> data]

packUncompressed_ShiftedHeader(b, data) ==
  IF b.w.kind # KBuffer \/ b.uncompLen = maxLength THEN [b |-> b, data |-> data]
  ELSE LET remaining == Min(maxLength - b.uncompLen, Len(data))
           len == U16(b.uncompLen + remaining)
           i == b.uncompHeaderIdx
           hdr == LE16(len) \o LE16(Not16(len))
           out1 == [k \in 1..Len(b.w.out) |->
                      IF k >= i + 1 /\ k <= i + 4 THEN hdr[k - i] ELSE b.w.out[k]]
       IN [b |-> [b EXCEPT !.uncompLen = len,
                           !.w.out = out1 \o Take(data, remaining)],
           data |-> Drop(data, remaining)]

\* packUncompressed: the builder after the call and the slice it returns
packUncompressed(b, data) ==
  IF b.w.kind # KBuffer \/ b.uncompLen = maxLength THEN [b |-> b, data |-> data]
  ELSE LET remaining == Min(maxLength - b.uncompLen, Len(data))
           len == U16(b.uncompLen + remaining)
           i == b.uncompHeaderIdx
           hdr == LE16(len) \o LE16(Not16(len))
           out1 == [k \in 1..Len(b.w.out) |->
                      IF k >= i + 2 /\ k <= i + 5 THEN hdr[k - i - 1] ELSE b.w.out[k]]
       IN [b |-> [b EXCEPT !.uncompLen = len,
                           !.w.out = out1 \o Take(data, remaining)],
           data |-> Drop(data, remaining)]

\* the for loop of AddUncompressedData: full blocks while more than maxLength
\* bytes remain; it stops at the first write error
storeFull_NoSplit(b, data) == [b |-> b, data |-> data]

RECURSIVE storeFull(_, _)
\* the loop body after zeroWrite, b the builder after it
storeNext(b, data) ==
  IF b.err # NoErr THEN [b |-> b, data |-> data]
  ELSE storeFull(b, Drop(data, maxLength))

storeFull(b, data) ==
  IF Len(data) > maxLength
  THEN storeNext(zeroWrite(b, Take(data, maxLength)), data)
  ELSE [b |-> b, data |-> data]

markTail_StaleIdx(b, data) ==
  IF b.w.kind = KBuffer THEN [b EXCEPT !.uncompLen = U16(Len(data))] ELSE b

\* if buf, ok := b.w.(*bytes.Buffer); ok { b.uncompHeaderIdx = ...; b.uncompLen = ... }
markTail(b, data) ==
  IF b.w.kind = KBuffer
  THEN [b EXCEPT !.uncompHeaderIdx = Len(b.w.out), !.uncompLen = U16(Len(data))]
  ELSE b

\* AddUncompressedData after its loop: lp.b the builder and lp.data the slice
\* the loop has left
storeTail(lp) ==
  IF lp.b.err # NoErr THEN lp.b
  ELSE zeroWrite(markTail(lp.b, lp.data), lp.data)

\* AddUncompressedData after the packing step: pk.b the builder and pk.data
\* the slice left, packed whether packUncompressed was called
storeBlocks(pk, packed) ==
  IF packed /\ Len(pk.data) = 0 THEN pk.b
  ELSE storeTail(storeFull([pk.b EXCEPT !.last = uncompressed], pk.data))

packAndStore_AnyTail(b, data) ==
  IF packUncompressedData
  THEN storeBlocks(packUncompressed(b, data), TRUE)
  ELSE storeBlocks([b |-> b, data |-> data], FALSE)

\* AddUncompressedData from the packing step on, b the builder after the sums
packAndStore(b, data) ==
  IF packUncompressedData /\ b.last = uncompressed
  THEN storeBlocks(packUncompressed(b, data), TRUE)
  ELSE storeBlocks([b |-> b, data |-> data], FALSE)

\* AddUncompressedData from the sums on, b the builder after flushCompressed
storeData(b, data) ==
  IF b.err # NoErr THEN b ELSE packAndStore(addSum(b, data), data)

\* AddUncompressedData after canWrite, b the builder after it
checkUncompressed(b, data) ==
  IF b.err # NoErr \/ Len(data) = 0 THEN b
  ELSE storeData(flushCompressed(b), data)

AddUncompressedData(b, data) ==
  checkUncompressed(canWrite(IF b.last = start THEN writeHeader(b) ELSE b), data)

writeResult_Short(b, p) ==
  [b |-> b, n |-> IF b.err # NoErr THEN 0 ELSE Len(p), err |-> b.err]

\* return len(p), w.err: b the builder after the append
writeResult(b, p) == [b |-> b, n |-> Len(p), err |-> b.err]

uncompressedWrite_Compressed(b, p) == writeResult(AddCompressedData(b, p), p)

\* uncompressedWriter.Write: the builder after the call and what it returns
uncompressedWrite(b, p) == writeResult(AddUncompressedData(b, p), p)

\* compressedWriter.Write: the builder after the call and what it returns
compressedWrite(b, p) == writeResult(AddCompressedData(b, p), p)

\* default: if b.err == nil { _, b.err = b.w.Write(closeFooter) }
writeTerminator(b) == IF b.err = NoErr THEN bWrite(b, closeFooter) ELSE b

finishBlock_NoFallthrough(b) ==
  IF b.last = compressed THEN (IF b.err = NoErr THEN fwClose(b) ELSE b)
  ELSE IF b.last = start THEN writeHeader(b)
  ELSE writeTerminator(b)

\* the switch of finish, for b.last # finished: the final block
finishBlock(b) ==
  IF b.last = compressed THEN (IF b.err = NoErr THEN fwClose(b) ELSE b)
  ELSE writeTerminator(IF b.last = start THEN writeHeader(b) ELSE b)

writeFooter_Always(b) ==
  IF ~b.rawDeflate THEN bWrite(b, LE32(b.crc) \o LE32(b.size)) ELSE b

\* if !b.rawDeflate && b.err == nil { ... b.w.Write(b.scratch[:8]) }
writeFooter(b) ==
  IF ~b.rawDeflate /\ b.err = NoErr
  THEN bWrite(b, LE32(b.crc) \o LE32(b.size))
  ELSE b

releaseEncoder_KeepRef(b) == IF b.fw.live THEN flateWriterPut(b) ELSE b

\* if b.fw != nil { flateWriterPut(b.fw, b.level); b.fw = nil }
releaseEncoder(b) ==
  IF b.fw.live THEN [flateWriterPut(b) EXCEPT !.fw = NoFW] ELSE b

finishRest_CleanOnly(b) ==
  releaseEncoder(writeFooter(
    [finishBlock(b) EXCEPT !.last = IF finishBlock(b).err = NoErr THEN finished ELSE @]))

\* finish after the switch: the footer, and the encoder goes back to its pool
finishRest(b) ==
  releaseEncoder(writeFooter([finishBlock(b) EXCEPT !.last = finished]))

finish_Again(b) == finishRest(b)

\* finish: the builder after the call; it returns b.err == nil
finish(b) == IF b.last = finished THEN b ELSE finishRest(b)

\* Builder.Bytes after finish, b the builder after it: the builder and what
\* the method returns
bytesResult(b) ==
  [b |-> b,
   ret |-> IF b.err # NoErr
           THEN [nil |-> TRUE, bytes |-> <<>>, n |-> 0, err |-> b.err, panic |-> FALSE]
           ELSE [nil |-> FALSE, bytes |-> b.w.out, n |-> 0, err |-> NoErr, panic |-> FALSE]]

\* Builder.Bytes: the builder after the call and what it returns
Bytes(b) == bytesResult(finish(b))

\* Builder.BytesOrPanic after finish, b the builder after it
bytesOrPanicResult(b) ==
  [b |-> b,
   ret |-> IF b.err # NoErr
           THEN [nil |-> TRUE, bytes |-> <<>>, n |-> 0, err |-> b.err, panic |-> TRUE]
           ELSE [nil |-> FALSE, bytes |-> b.w.out, n |-> 0, err |-> NoErr, panic |-> FALSE]]

\* Builder.BytesOrPanic
BytesOrPanic(b) == bytesOrPanicResult(finish(b))

closeFlush_Always(b) ==
  LET w1 == bufioFlush(b.w)
  IN [b EXCEPT !.w = w1, !.err = sinkErr(w1)]

\* if b.finish() { b.err = buf.Flush() }, b the builder after finish
closeFlush(b) ==
  IF b.err = NoErr
  THEN LET w1 == bufioFlush(b.w)
       IN [b EXCEPT !.w = w1, !.err = sinkErr(w1)]
  ELSE b

Close_NoGuard(b) ==
  [closeFlush(finish(b)) EXCEPT !.bufioPool = @ + 1, !.w.kind = KNil]

\* Writer.Close: the builder after the call; it returns b.err
Close(b) ==
  IF b.last = finished THEN b
  ELSE [closeFlush(finish(b)) EXCEPT !.bufioPool = @ + 1, !.w.kind = KNil]

----------------------------------------------------------------------------
(* The precompressed producer.                                             *)
(*   buf    the contents of the bytes.Buffer the encoder writes to         *)
(*   bufId  which bytes.Buffer it is: the writer's first, second, ...      *)

NewPrecompressedWriter(lv) ==
  [level |-> lv, buf |-> <<>>, bufId |-> 1,
   fw |-> IF validCompressionLevel(lv) = NoErr THEN newFW ELSE NoFW,
   size |-> 0, crc |-> Zero32, lastFlush |-> FALSE,
   err |-> validCompressionLevel(lv)]

pwReset_Always(pw) ==
  [level |-> pw.level, buf |-> <<>>, bufId |-> pw.bufId + 1,
   fw |-> fwReset(pw.fw),
   size |-> 0, crc |-> Zero32, lastFlush |-> FALSE, err |-> NoErr]

pwReset_SameBuffer(pw) ==
  IF ~pw.fw.live THEN pw
  ELSE [level |-> pw.level, buf |-> <<>>, bufId |-> pw.bufId,
        fw |-> fwReset(pw.fw),
        size |-> 0, crc |-> Zero32, lastFlush |-> FALSE, err |-> NoErr]

\* PrecompressedWriter.Reset
pwReset(pw) ==
  IF ~pw.fw.live THEN pw
  ELSE [level |-> pw.level, buf |-> <<>>, bufId |-> pw.bufId + 1,
        fw |-> fwReset(pw.fw),
        size |-> 0, crc |-> Zero32, lastFlush |-> FALSE, err |-> NoErr]

pwWrite_NoSize(pw, p) ==
  IF pw.err # NoErr THEN pw
  ELSE [pw EXCEPT !.lastFlush = FALSE,
                  !.crc = crc32Update(@, p),
                  !.fw = fwWrite(@, p)]

\* PrecompressedWriter.Write: the writer after the call
pwWrite(pw, p) ==
  IF pw.err # NoErr THEN pw
  ELSE [pw EXCEPT !.lastFlush = FALSE,
                  !.size = @ + Len(p),
                  !.crc = crc32Update(@, p),
                  !.fw = fwWrite(@, p)]

\* PrecompressedWriter.Write: the writer after the call and what it returns
\* (the encoder's Write into a bytes.Buffer takes all of p)
pwWriteResult(pw, p) ==
  [pw |-> pwWrite(pw, p),
   n |-> IF pw.err # NoErr THEN 0 ELSE Len(p),
   err |-> pw.err]

pwFlush_Close(pw) ==
  IF pw.err = NoErr /\ ~pw.lastFlush
  THEN [pw EXCEPT !.buf = @ \o fwEmit(pw.fw) \o closeFooter,
                  !.fw = fwEmitted(@),
                  !.lastFlush = TRUE]
  ELSE pw

pwFlush_Always(pw) ==
  IF pw.err = NoErr
  THEN [pw EXCEPT !.buf = @ \o fwEmit(pw.fw) \o syncMarker,
                  !.fw = fwEmitted(@),
                  !.lastFlush = TRUE]
  ELSE pw

\* if w.err == nil && !w.lastFlush { w.err = w.fw.Flush(); w.lastFlush = true }
pwFlush(pw) ==
  IF pw.err = NoErr /\ ~pw.lastFlush
  THEN [pw EXCEPT !.buf = @ \o fwEmit(pw.fw) \o syncMarker,
                  !.fw = fwEmitted(@),
                  !.lastFlush = TRUE]
  ELSE pw

\* Data after the flush, pw the writer after it
pwResult(pw) ==
  [pw |-> pw,
   nil |-> pw.err # NoErr,
   data |-> [level |-> pw.level, bytes |-> pw.buf, size |-> pw.size, crc |-> pw.crc],
   err |-> pw.err]

\* PrecompressedWriter.Data: the writer after the call and what it returns
pwData(pw) == pwResult(pwFlush(pw))

PrecompressData(data, lv) == pwData(pwWrite(NewPrecompressedWriter(lv), data))

----------------------------------------------------------------------------
(* The state machine: one builder and the calls its owner makes.           *)

\* builder.Err
Err(b) == b.err

VARIABLES
  level, last, rawDeflate, uncompLen, uncompHeaderIdx, w, fw, size, crc, err,
  flatePools, bufioPool, made,
  payload,  \* history: the payload bytes of the appends accepted so far
  kinds,    \* history: the kinds of the non-empty appends accepted so far
  op,       \* the method called last
  ret       \* what it returned

\* Builders that share the package-level encoder pools (the third machine
\* below).
VARIABLES
  builders,   \* the builders, each without the package-level state
  pools,      \* flateWriterPools
  poolMade,   \* the number of encoders flateWriterGet has made
  madeFor,    \* history: the level each encoder was made with
  shared,     \* the PrecompressedData the builders are given, by level
  calls,      \* history: the calls made on each builder since it was made
  actor       \* the builder called last (0: none)

\* A PrecompressedWriter and its caller (the second machine below).
VARIABLES
  pw,       \* the PrecompressedWriter
  heap,     \* the backing arrays of the bytes.Buffers it has had, by bufId
  held,     \* a PrecompressedData the caller has kept from an earlier Data
  written,  \* history: the bytes written since construction or the last Reset
  pwLog,    \* history: the methods called
  pwRet     \* what the last call returned

\* A template and one execution of it (the fourth machine below).
VARIABLES
  tplFrags,   \* the texts of the template, between its tags
  tplValues,  \* the value given for each tag
  tplTexts,   \* t.texts: the texts compressed, or t.template when no tag
  tplI,       \* ExecuteFunc's i
  tplOut,     \* the strings.Builder ExecuteFuncString writes to
  tplRet      \* what ExecuteFunc returned, once it has

builderVars ==
  <<level, last, rawDeflate, uncompLen, uncompHeaderIdx, w, fw, size, crc,
    err, flatePools, bufioPool, made, payload, kinds, op, ret>>

poolVars == <<builders, pools, poolMade, madeFor, shared, calls, actor>>

pwVars == <<pw, heap, held, written, pwLog, pwRet>>

tplVars == <<tplFrags, tplValues, tplTexts, tplI, tplOut, tplRet>>

vars == <<builderVars, poolVars, pwVars, tplVars>>

\* the machines that are not running
BuilderIdle ==
  /\ level = DefaultCompression
  /\ last = start
  /\ rawDeflate = FALSE
  /\ uncompLen = 0
  /\ uncompHeaderIdx = 0
  /\ w = newSink(KBuffer, NoLimit)
  /\ fw = NoFW
  /\ size = Zero32
  /\ crc = Zero32
  /\ err = NoErr
  /\ flatePools = [l \in ValidLevels |-> <<>>]
  /\ bufioPool = 0
  /\ made = 0
  /\ payload = <<>>
  /\ kinds = {}
  /\ op = "idle"
  /\ ret = [nil |-> FALSE, bytes |-> <<>>, n |-> 0, err |-> NoErr, panic |-> FALSE]

PoolIdle ==
  /\ builders = <<>>
  /\ pools = <<>>
  /\ poolMade = 0
  /\ madeFor = <<>>
  /\ shared = <<>>
  /\ calls = <<>>
  /\ actor = 0

NoData == [level |-> 0, bytes |-> <<>>, size |-> 0, crc |-> Zero32]
NoHeld == [kept |-> FALSE, data |-> NoData, bufId |-> 0, written |-> <<>>]
NoPwRet == [nil |-> FALSE, data |-> NoData, n |-> 0, err |-> NoErr]

PwIdle ==
  /\ pw = NewPrecompressedWriter(DefaultCompression)
  /\ heap = <<>>
  /\ held = NoHeld
  /\ written = <<>>
  /\ pwLog = <<>>
  /\ pwRet = NoPwRet

NoTplRet == [done |-> FALSE, n |-> 0, err |-> NoErr]

TplIdle ==
  /\ tplFrags = <<>>
  /\ tplValues = <<>>
  /\ tplTexts = <<>>
  /\ tplI = 0
  /\ tplOut = <<>>
  /\ tplRet = NoTplRet

OthersIdle == PoolIdle /\ PwIdle /\ TplIdle

others == <<poolVars, pwVars, tplVars>>

\* the builder held in the variables
B ==
  [level |-> level, last |-> last, rawDeflate |-> rawDeflate,
   uncompLen |-> uncompLen, uncompHeaderIdx |-> uncompHeaderIdx,
   w |-> w, fw |-> fw, size |-> size, crc |-> crc, err |-> err,
   flatePools |-> flatePools, bufioPool |-> bufioPool, made |-> made]

Set(b) ==
  /\ level' = b.level
  /\ last' = b.last
  /\ rawDeflate' = b.rawDeflate
  /\ uncompLen' = b.uncompLen
  /\ uncompHeaderIdx' = b.uncompHeaderIdx
  /\ w' = b.w
  /\ fw' = b.fw
  /\ size' = b.size
  /\ crc' = b.crc
  /\ err' = b.err
  /\ flatePools' = b.flatePools
  /\ bufioPool' = b.bufioPool
  /\ made' = b.made

\* the levels builders are made with: three valid ones, the tests' invalid
\* one and the two just outside the valid range
Levels ==
  {InvalidLevel, HuffmanOnly - 1, BestCompression + 1,
   DefaultCompression, BestSpeed, BestCompression}
SegLevels == {DefaultCompression, BestCompression}

NoRet == [nil |-> FALSE, bytes |-> <<>>, n |-> 0, err |-> NoErr, panic |-> FALSE]

\* the next n bytes the caller has to append
NextData(n) == SubSeq(Stream, Len(payload) + 1, Len(payload) + n)
DataLens == {n \in 0..MaxData : Len(payload) + n <= MaxTotal}

Accept(b, data, kind) ==
  /\ payload' = IF b.err = NoErr THEN payload \o data ELSE payload
  /\ kinds' = IF b.err = NoErr /\ Len(data) > 0 THEN kinds \cup {kind} ELSE kinds

Init ==
  /\ \E lv \in Levels :
       \E sink \in {newSink(KBuffer, NoLimit)}
                   \cup {newSink(KBufio, l) : l \in NoLimit..MaxWrLeft},
          pooled \in {p \in BOOLEAN : p => lv \in ValidLevels} :
         /\ level = lv
         /\ last = start
         /\ rawDeflate = FALSE
         /\ uncompLen = 0
         /\ uncompHeaderIdx = 0
         /\ w = sink
         /\ fw = NoFW
         /\ size = Zero32
         /\ crc = Zero32
         /\ err = validCompressionLevel(lv)
         /\ flatePools = [l \in ValidLevels |-> IF pooled /\ l = lv THEN <<usedFW>> ELSE <<>>]
         /\ bufioPool = 0
         /\ made = (IF pooled THEN 1 ELSE 0)
  /\ payload = <<>>
  /\ kinds = {}
  /\ op = "new"
  /\ ret = NoRet
  /\ OthersIdle

DoRawDeflate ==
  /\ Set(RawDeflate(B))
  /\ UNCHANGED <<payload, kinds>>
  /\ op' = "RawDeflate"
  /\ ret' = NoRet
  /\ UNCHANGED others

DoAddPrecompressedData ==
  \E n \in DataLens, lv \in SegLevels :
    LET seg == PrecompressData(NextData(n), lv).data
        b1 == AddPrecompressedData(B, seg)
    IN /\ Set(b1)
       /\ Accept(b1, NextData(n), "precompressed")
       /\ op' = "AddPrecompressedData"
       /\ ret' = NoRet
       /\ UNCHANGED others

DoAddCompressedData ==
  \E n \in DataLens :
    LET b1 == AddCompressedData(B, NextData(n))
    IN /\ Set(b1)
       /\ Accept(b1, NextData(n), "compressed")
       /\ op' = "AddCompressedData"
       /\ ret' = NoRet
       /\ UNCHANGED others

DoAddUncompressedData ==
  \E n \in DataLens :
    LET b1 == AddUncompressedData(B, NextData(n))
    IN /\ Set(b1)
       /\ Accept(b1, NextData(n), "uncompressed")
       /\ op' = "AddUncompressedData"
       /\ ret' = NoRet
       /\ UNCHANGED others

\* uncompressedWriter.Write
DoUncompressedWrite ==
  \E n \in DataLens :
    LET r == uncompressedWrite(B, NextData(n))
    IN /\ Set(r.b)
       /\ Accept(r.b, NextData(n), "uncompressed")
       /\ op' = "UncompressedWriter.Write"
       /\ ret' = [NoRet EXCEPT !.n = r.n, !.err = r.err]
       /\ UNCHANGED others

\* compressedWriter.Write
DoCompressedWrite ==
  \E n \in DataLens :
    LET r == compressedWrite(B, NextData(n))
    IN /\ Set(r.b)
       /\ Accept(r.b, NextData(n), "compressed")
       /\ op' = "CompressedWriter.Write"
       /\ ret' = [NoRet EXCEPT !.n = r.n, !.err = r.err]
       /\ UNCHANGED others

DoBytes ==
  /\ w.kind = KBuffer
  /\ LET r == Bytes(B)
     IN /\ Set(r.b)
        /\ ret' = r.ret
  /\ UNCHANGED <<payload, kinds>>
  /\ op' = "Bytes"
  /\ UNCHANGED others

DoBytesOrPanic ==
  /\ w.kind = KBuffer
  /\ LET r == BytesOrPanic(B)
     IN /\ Set(r.b)
        /\ ret' = r.ret
  /\ UNCHANGED <<payload, kinds>>
  /\ op' = "BytesOrPanic"
  /\ UNCHANGED others

DoClose ==
  /\ w.kind # KBuffer
  /\ LET b1 == Close(B)
     IN /\ Set(b1)
        /\ ret' = [NoRet EXCEPT !.err = b1.err]
  /\ UNCHANGED <<payload, kinds>>
  /\ op' = "Close"
  /\ UNCHANGED others

Next ==
  \/ DoRawDeflate
  \/ DoAddPrecompressedData
  \/ DoAddCompressedData
  \/ DoAddUncompressedData
  \/ DoUncompressedWrite
  \/ DoCompressedWrite
  \/ DoBytes
  \/ DoBytesOrPanic
  \/ DoClose

Spec == Init /\ [][Next]_vars

----------------------------------------------------------------------------
(* A PrecompressedWriter and its caller.  Data returns w.buf.Bytes(), a    *)
(* slice of the buffer's backing array, so what a PrecompressedData the    *)
(* caller keeps holds is read from the heap.                               *)

\* the backing arrays after a call: the buffer of the writer p holds p.buf,
\* written over the front of its array
Store(h, p) ==
  IF p.bufId > Len(h) THEN Append(h, p.buf)
  ELSE [h EXCEPT ![p.bufId] = p.buf \o Drop(@, Len(p.buf))]

\* the bytes a kept PrecompressedData holds now
HeldBytes ==
  [k \in 1..Len(held.data.bytes) |->
     IF k <= Len(heap[held.bufId]) THEN heap[held.bufId][k] ELSE 0]

HeldData == [held.data EXCEPT !.bytes = HeldBytes]

\* the next n bytes the caller has to write
PwNext(n) == SubSeq(Stream, Len(written) + 1, Len(written) + n)
PwLens == {n \in 0..MaxData : Len(written) + n <= MaxTotal}

InitPw ==
  /\ \E lv \in Levels :
       /\ pw = NewPrecompressedWriter(lv)
       /\ heap = Store(<<>>, NewPrecompressedWriter(lv))
  /\ held = NoHeld
  /\ written = <<>>
  /\ pwLog = <<>>
  /\ pwRet = NoPwRet
  /\ BuilderIdle
  /\ PoolIdle
  /\ TplIdle

PwWrite ==
  /\ Len(pwLog) < MaxPwCalls
  /\ \E n \in PwLens :
       LET r == pwWriteResult(pw, PwNext(n))
       IN /\ pw' = r.pw
          /\ heap' = Store(heap, r.pw)
          /\ written' = IF r.err = NoErr THEN written \o PwNext(n) ELSE written
          /\ pwRet' = [NoPwRet EXCEPT !.n = r.n, !.err = r.err]
  /\ pwLog' = Append(pwLog, "Write")
  /\ UNCHANGED held
  /\ UNCHANGED <<builderVars, poolVars, tplVars>>

\* Data; the caller keeps what it returns, or goes on with what it had
PwData ==
  /\ Len(pwLog) < MaxPwCalls
  /\ LET r == pwData(pw)
     IN /\ pw' = r.pw
        /\ heap' = Store(heap, r.pw)
        /\ pwRet' = [nil |-> r.nil, data |-> IF r.nil THEN NoData ELSE r.data,
                     n |-> 0, err |-> r.err]
        /\ \E keep \in {k \in BOOLEAN : k => ~r.nil} :
             held' = IF keep
                     THEN [kept |-> TRUE, data |-> r.data, bufId |-> r.pw.bufId,
                           written |-> written]
                     ELSE held
  /\ pwLog' = Append(pwLog, "Data")
  /\ UNCHANGED written
  /\ UNCHANGED <<builderVars, poolVars, tplVars>>

PwReset ==
  /\ Len(pwLog) < MaxPwCalls
  /\ pw' = pwReset(pw)
  /\ heap' = Store(heap, pwReset(pw))
  /\ written' = IF pw.fw.live THEN <<>> ELSE written
  /\ pwLog' = Append(pwLog, "Reset")
  /\ pwRet' = NoPwRet
  /\ UNCHANGED held
  /\ UNCHANGED <<builderVars, poolVars, tplVars>>

NextPw ==
  \/ PwWrite
  \/ PwData
  \/ PwReset

SpecPw == InitPw /\ [][NextPw]_vars

----------------------------------------------------------------------------
(* The template engine (fasttemplate).  A template is its texts, one       *)
(* before each tag and one after the last; Reset compresses each text on   *)
(* its own, flushed, the last one closed.  ExecuteFunc writes the texts    *)
(* and has each tag's value written through a typeZeroWriter, as a stored  *)
(* block.                                                                  *)

\* one text compressed from an empty window: fw.Reset(&buf), fw.Write,
\* then fw.Close for the last text and fw.Flush for the others
compressText(text, isLast) ==
  fwEmit(fwWrite(newFW, text)) \o (IF isLast THEN closeFooter ELSE syncMarker)

\* Template.Reset: t.texts, or, for a template without tags, t.template
templateTexts(frags) ==
  [j \in 1..Len(frags) |-> compressText(frags[j], j = Len(frags))]

\* typeZeroWriter.Write: the sink after the call and what it returns; the
\* limit is int(^uint16(0)), maxLength in this model
typeZeroWrite(out, p) ==
  IF Len(p) > maxLength THEN [out |-> out, n |-> 0, err |-> ErrTooLong]
  ELSE [out |-> out \o <<0>> \o LE16(Len(p)) \o LE16(Not16(Len(p))) \o p,
        n |-> Len(p), err |-> NoErr]

\* stdTagFunc: no value for the tag, or a []byte or string value
stdTagFunc(out, v) ==
  IF v.nil THEN [out |-> out, n |-> 0, err |-> NoErr]
  ELSE typeZeroWrite(out, v.bytes)

TplTextSet == {SubSeq(Stream, 1, n) : n \in 0..MaxText}
TplValueSet ==
  {[nil |-> TRUE, bytes |-> <<>>]}
  \cup {[nil |-> FALSE, bytes |-> SubSeq(Stream, 3, 2 + n)] : n \in 0..(maxLength + 2)}

\* New(template, startTag, endTag, level) and the map given to ExecuteString
InitTpl ==
  /\ \E k \in 0..MaxTags :
       /\ tplFrags \in [1..(k + 1) -> TplTextSet]
       /\ tplValues \in [1..k -> TplValueSet]
  /\ tplTexts = templateTexts(tplFrags)
  /\ tplI = 0
  /\ tplOut = <<>>
  /\ tplRet = NoTplRet
  /\ BuilderIdle
  /\ PoolIdle
  /\ PwIdle

\* ExecuteFunc, n == -1: the template has no tag
TplWhole ==
  /\ ~tplRet.done
  /\ Len(tplValues) = 0
  /\ tplOut' = tplOut \o tplTexts[1]
  /\ tplRet' = [done |-> TRUE, n |-> Len(tplTexts[1]), err |-> NoErr]
  /\ UNCHANGED <<tplFrags, tplValues, tplTexts, tplI>>
  /\ UNCHANGED <<builderVars, poolVars, pwVars>>

\* ExecuteFunc, one turn of the loop: the text, then the tag's value
TplTag ==
  /\ ~tplRet.done
  /\ tplI < Len(tplValues)
  /\ LET r == stdTagFunc(tplOut \o tplTexts[tplI + 1], tplValues[tplI + 1])
     IN /\ tplOut' = r.out
        /\ tplRet' = [done |-> r.err # NoErr,
                      n |-> tplRet.n + Len(tplTexts[tplI + 1]) + r.n,
                      err |-> r.err]
  /\ tplI' = tplI + 1
  /\ UNCHANGED <<tplFrags, tplValues, tplTexts>>
  /\ UNCHANGED <<builderVars, poolVars, pwVars>>

\* ExecuteFunc after the loop: the last text
TplTail ==
  /\ ~tplRet.done
  /\ Len(tplValues) > 0
  /\ tplI = Len(tplValues)
  /\ tplOut' = tplOut \o tplTexts[tplI + 1]
  /\ tplRet' = [done |-> TRUE, n |-> tplRet.n + Len(tplTexts[tplI + 1]), err |-> NoErr]
  /\ UNCHANGED <<tplFrags, tplValues, tplTexts, tplI>>
  /\ UNCHANGED <<builderVars, poolVars, pwVars>>

NextTpl ==
  \/ TplWhole
  \/ TplTag
  \/ TplTail

SpecTpl == InitTpl /\ [][NextTpl]_vars

----------------------------------------------------------------------------
(* Builders that share the encoder pools.  A builder belongs to one        *)
(* caller; what builders share is the package's flateWriterPools, whose    *)
(* Get and Put are atomic (sync.Pool), and the PrecompressedData they are  *)
(* given.  A method touches the pools at most once, so a step is one       *)
(* method call on one builder.                                             *)

Builders == {1, 2}

NoPools == [l \in ValidLevels |-> <<>>]

\* the builder i as its methods see it, and the part of b that is its own
Shared(i) == [builders[i] EXCEPT !.flatePools = pools, !.made = poolMade]
Private(b) == [b EXCEPT !.flatePools = NoPools, !.made = 0]

\* the segments every builder is given
SharedData == [lv \in SegLevels |-> PrecompressData(<<97, 98>>, lv).data]

\* the byte the caller of builder i appends next
PoolData(i) == <<Stream[Len(calls[i]) + 1]>>

\* the call c made on b: the builder after it
Apply(b, c) ==
  CASE c.m = "AddCompressedData" -> AddCompressedData(b, c.data)
    [] c.m = "AddUncompressedData" -> AddUncompressedData(b, c.data)
    [] c.m = "AddPrecompressedData" -> AddPrecompressedData(b, shared[c.lv])
    [] c.m = "Bytes" -> Bytes(b).b

PoolStep(i, c) ==
  /\ Len(calls[i]) < MaxCalls
  /\ LET b1 == Apply(Shared(i), c)
     IN /\ builders' = [builders EXCEPT ![i] = Private(b1)]
        /\ pools' = b1.flatePools
        /\ poolMade' = b1.made
        /\ madeFor' = IF b1.made > poolMade THEN Append(madeFor, b1.level) ELSE madeFor
  /\ calls' = [calls EXCEPT ![i] = Append(@, c)]
  /\ actor' = i
  /\ UNCHANGED shared
  /\ UNCHANGED <<builderVars, pwVars, tplVars>>

InitPool ==
  /\ builders \in [Builders -> {newBuilder(newSink(KBuffer, NoLimit), lv) : lv \in SegLevels}]
  /\ pools = NoPools
  /\ poolMade = 0
  /\ madeFor = <<>>
  /\ shared = SharedData
  /\ calls = [i \in Builders |-> <<>>]
  /\ actor = 0
  /\ BuilderIdle
  /\ PwIdle
  /\ TplIdle

\* on a finished builder too: the call that would use an encoder
PoolAddCompressedData(i) ==
  PoolStep(i, [m |-> "AddCompressedData", data |-> PoolData(i), lv |-> 0])

PoolAddUncompressedData(i) ==
  /\ builders[i].last # finished
  /\ PoolStep(i, [m |-> "AddUncompressedData", data |-> PoolData(i), lv |-> 0])

\* the segment of the builder's own level
PoolAddPrecompressedData(i) ==
  /\ builders[i].last # finished
  /\ PoolStep(i, [m |-> "AddPrecompressedData", data |-> <<>>, lv |-> builders[i].level])

PoolBytes(i) ==
  /\ builders[i].last # finished
  /\ PoolStep(i, [m |-> "Bytes", data |-> <<>>, lv |-> 0])

NextPool ==
  \E i \in Builders :
    \/ PoolAddCompressedData(i)
    \/ PoolAddUncompressedData(i)
    \/ PoolAddPrecompressedData(i)
    \/ PoolBytes(i)

SpecPool == InitPool /\ [][NextPool]_vars

----------------------------------------------------------------------------
(* Properties.                                                             *)

AppendOps ==
  {"AddPrecompressedData", "AddCompressedData", "AddUncompressedData",
   "UncompressedWriter.Write", "CompressedWriter.Write"}

BytesOps == {"Bytes", "BytesOrPanic"}

AllKinds == {"compressed", "uncompressed", "precompressed"}

\* s decoded block by block, for the mode the builder is in: a raw DEFLATE
\* stream, or the DEFLATE stream between the 10-byte header and the 8-byte
\* footer of a GZIP member
Decode(s) ==
  IF rawDeflate THEN flateDecode(s)
  ELSE IF Len(s) < 10 \/ Take(s, 4) # <<31, 139, 8, 0>> THEN [ok |-> FALSE, out |-> <<>>]
  ELSE LET r == inflate(s, 11, <<>>)
       IN [ok |-> r.ok /\ r.next + 7 = Len(s), out |-> r.out]

\* C1: whenever Bytes (or BytesOrPanic) returns without error, the returned
\* stream decodes, block by block, to exactly the concatenation of the
\* payloads appended, in the order they were appended.
C1_DecodesToPayload ==
  (op \in BytesOps /\ ret.err = NoErr) =>
    /\ Decode(ret.bytes).ok
    /\ Decode(ret.bytes).out = payload

C1_Witness ==
  /\ op = "Bytes"
  /\ ret.err = NoErr
  /\ kinds = AllKinds
  /\ Len(payload) = MaxTotal

\* C2: in non-raw mode, while no error has occurred, size is the number of
\* payload bytes appended (mod 2^32) and crc is the CRC32 of their
\* concatenation; once finished, the output ends with the final block followed
\* by the footer LE32(crc), LE32(size), written once.
C2_RunningSums ==
  (~rawDeflate /\ err = NoErr) =>
    /\ size = U32(Len(payload))
    /\ crc = crc32Update(Zero32, payload)
    /\ last = finished =>
         LET s == Written(w)
             n == Len(s)
             r == inflate(s, 11, <<>>)
         IN /\ n >= 23
            /\ SubSeq(s, n - 7, n) = LE32(crc) \o LE32(size)
            /\ r.ok
            /\ r.next = n - 7
            /\ gzipDecode(s).ok

C2_Witness ==
  /\ last = finished
  /\ err = NoErr
  /\ ~rawDeflate
  /\ kinds = AllKinds

\* what one AddUncompressedData(payload) on a new Builder with the same options
\* finalises to
SingleAppendBytes ==
  LET f0 == newBuilder(newSink(KBuffer, NoLimit), level)
      f1 == IF rawDeflate THEN RawDeflate(f0) ELSE f0
  IN Bytes(AddUncompressedData(f1, payload)).ret.bytes

\* C3: on a Builder over the in-memory buffer that has only had uncompressed
\* appends, however the payload was cut into chunks, finalising yields the same
\* bytes as one AddUncompressedData of the whole payload.
C3_PackingChunkInvariant ==
  (w.kind = KBuffer /\ err = NoErr /\ kinds \subseteq {"uncompressed"}) =>
    Bytes(B).ret.bytes = SingleAppendBytes

\* a chunk that straddles the block boundary: it fills the tail block and
\* starts the next one
C3_Witness ==
  /\ w.kind = KBuffer
  /\ err = NoErr
  /\ kinds = {"uncompressed"}
  /\ op = "UncompressedWriter.Write"
  /\ ret.n = maxLength + 1
  /\ Len(payload) = 2 * maxLength

\* C4: once the error is set no operation changes it, writes to the sink, or
\* changes crc or size.
C4_StickyError ==
  [][err # NoErr =>
       /\ err' = err
       /\ w'.out = w.out
       /\ w'.buf = w.buf
       /\ crc' = crc
       /\ size' = size]_vars

C4_Witness ==
  /\ err = ErrMismatch
  /\ op = "CompressedWriter.Write"
  /\ ret.err = ErrMismatch

\* C5: on a builder finished without error every append, of any length, sets
\* the modify-after-finish error; Bytes then returns nil with that error and
\* BytesOrPanic panics.
C5_ModifyAfterFinish ==
  [][/\ (last = finished /\ err = NoErr /\ op' \in AppendOps) => err' = ErrFinished
     /\ (err' = ErrFinished /\ op' = "Bytes") =>
          (ret'.nil /\ ret'.err = ErrFinished /\ ~ret'.panic)
     /\ (err' = ErrFinished /\ op' = "BytesOrPanic") =>
          (ret'.panic /\ ret'.err = ErrFinished)]_vars

C5_Witness ==
  /\ err = ErrFinished
  /\ op = "BytesOrPanic"
  /\ ret.panic

\* C6: RawDeflate on an error-free builder takes effect in START and in every
\* other state sets the option error; rawDeflate never changes once last has
\* left START.
C6_RawDeflateOnlyInStart ==
  [][/\ (op' = "RawDeflate" /\ err = NoErr /\ last # start) =>
          (err' = ErrOption /\ rawDeflate' = rawDeflate)
     /\ (op' = "RawDeflate" /\ err = NoErr /\ last = start) =>
          (err' = NoErr /\ rawDeflate')
     /\ last # start => rawDeflate' = rawDeflate]_vars

C6_Witness ==
  /\ err = ErrOption
  /\ op = "RawDeflate"
  /\ last = finished
  /\ ~rawDeflate

\* the segment PrecompressData returns for the next n payload bytes
Segment(n, lv) == PrecompressData(NextData(n), lv).data

\* the sink after the header that an append in START writes first
AfterHeader ==
  IF last = start /\ err = NoErr /\ ~rawDeflate
  THEN Written(w) \o gzipHeader(level)
  ELSE Written(w)

\* C7: on an error-free, unfinished builder, AddPrecompressedData with a
\* segment of another level sets the level-mismatch error whatever the size of
\* the segment, zero included, and writes none of the segment.
C7_LevelMismatch ==
  (err = NoErr /\ last # finished) =>
    \A n \in DataLens, lv \in SegLevels :
      lv # level =>
        LET b1 == AddPrecompressedData(B, Segment(n, lv))
        IN /\ b1.err = ErrMismatch
           /\ Written(b1.w) = AfterHeader

C7_Witness ==
  /\ err = ErrMismatch
  /\ op = "AddPrecompressedData"
  /\ last = compressed

\* C8: after Bytes or BytesOrPanic has returned, calling either again changes
\* nothing and returns the same bytes and error.
C8_BytesIdempotent ==
  op \in BytesOps =>
    /\ Bytes(B).b = B
    /\ BytesOrPanic(B).b = B
    /\ Bytes(B).ret.nil = ret.nil
    /\ Bytes(B).ret.bytes = ret.bytes
    /\ Bytes(B).ret.err = ret.err
    /\ BytesOrPanic(B).ret.bytes = ret.bytes
    /\ BytesOrPanic(B).ret.err = ret.err

C8_Witness ==
  /\ op = "Bytes"
  /\ ret.err = NoErr
  /\ kinds = AllKinds

\* the builder after each append operation is given zero-length input
ZeroAppends ==
  {AddCompressedData(B, <<>>), AddUncompressedData(B, <<>>),
   AddPrecompressedData(B, PrecompressData(<<>>, level).data)}

\* C9 as stated: a zero-length append does not alter last, in every state.
C9_Original == \A b1 \in ZeroAppends : b1.last = last

\* C9 as amended: a zero-length append writes no payload, block or segment
\* byte and leaves crc, size and the encoder alone; it leaves last alone
\* except in START, where on an error-free builder it moves last to HEADER
\* (and writes the GZIP header unless in raw mode); on a builder finished
\* without error it sets the modify-after-finish error.
C9_ZeroLengthAppend ==
  \A b1 \in ZeroAppends :
    /\ b1.last = (IF last = start /\ err = NoErr THEN header ELSE last)
    /\ Written(b1.w) = AfterHeader
    /\ b1.crc = crc
    /\ b1.size = size
    /\ b1.fw = fw
    /\ b1.err = (IF last = finished /\ err = NoErr THEN ErrFinished ELSE err)

C9_Witness ==
  /\ last = header
  /\ err = NoErr
  /\ op = "AddPrecompressedData"
  /\ payload = <<>>

EmptyOutput(lv) == gzipHeader(lv) \o closeFooter \o <<0, 0, 0, 0, 0, 0, 0, 0>>

\* C10: a non-raw builder with no payload, with or without zero-length
\* appends, finalises to the header, the terminator and eight zero bytes.
C10_EmptyOutput ==
  (~rawDeflate /\ err = NoErr /\ payload = <<>>) =>
    /\ w.kind = KBuffer => Bytes(B).ret.bytes = EmptyOutput(level)
    /\ w.kind = KBufio =>
         (Close(B).err = NoErr => Close(B).w.out = EmptyOutput(level))
    /\ last = finished => w.out = EmptyOutput(level)

C10_Witness ==
  /\ op = "Bytes"
  /\ ret.err = NoErr
  /\ ~rawDeflate
  /\ payload = <<>>
  /\ ret.bytes = EmptyOutput(level)

\* the DEFLATE stream in the sink: what follows the GZIP header, up to the
\* footer of a finished non-raw stream
StreamFirst == IF rawDeflate \/ last = start THEN 1 ELSE 11
StreamLast == Len(Written(w)) - (IF last = finished /\ ~rawDeflate THEN 8 ELSE 0)
StreamFinals == blockFinals(Written(w), StreamFirst, StreamLast, <<>>)

\* C11: while no error has occurred the sink holds whole blocks; before
\* finalise none of them has BFINAL = 1 (no append emits a final block), and
\* after finalise exactly one has, and it is the last block.
C11_OneFinalBlock ==
  err = NoErr =>
    /\ StreamFinals.ok
    /\ LET f == StreamFinals.finals
       IN IF last = finished
          THEN /\ Len(f) >= 1
               /\ f[Len(f)] = 1
               /\ \A k \in 1..(Len(f) - 1) : f[k] = 0
          ELSE \A k \in 1..Len(f) : f[k] = 0

\* a stream finalised from COMPRESSED, the encoder closing it, after blocks of
\* the other kinds
C11_Witness ==
  /\ last = finished
  /\ err = NoErr
  /\ kinds = AllKinds
  /\ Len(StreamFinals.finals) >= 4
  /\ LET s == Written(w)
     IN s[StreamLast - 5] >= LitBase

\* C12: in raw mode crc and size stay zero in every state; while no error has
\* occurred the sink holds DEFLATE blocks from its first byte on (no header),
\* and the finalised output is one DEFLATE stream and nothing else (no header,
\* no footer) that decodes to the payload.
C12_RawDeflateStreamAlone ==
  rawDeflate =>
    /\ crc = Zero32
    /\ size = Zero32
    /\ err = NoErr => blockFinals(Written(w), 1, StreamLast, <<>>).ok
    /\ (err = NoErr /\ last = finished) =>
         /\ StreamLast = Len(Written(w))
         /\ flateDecode(Written(w)).ok
         /\ flateDecode(Written(w)).out = payload

C12_Witness ==
  /\ rawDeflate
  /\ op = "Bytes"
  /\ ret.err = NoErr
  /\ kinds = AllKinds
  /\ flateDecode(ret.bytes).out = payload

\* the builder after every append the caller can make in the current state
AllAppends ==
  {AddCompressedData(B, NextData(n)) : n \in DataLens}
  \cup {AddUncompressedData(B, NextData(n)) : n \in DataLens}
  \cup {AddPrecompressedData(B, Segment(n, lv)) : n \in DataLens, lv \in SegLevels}

CompressedOps == {"AddCompressedData", "CompressedWriter.Write"}

\* the bytes the last step added to the payload
Appended == SubSeq(payload', Len(payload) + 1, Len(payload'))

\* C14: when a non-empty compressed append moves last into COMPRESSED from
\* another state, the encoder it feeds (retained, new or taken from the pool)
\* has an empty history and holds just the appended bytes; while last stays
\* COMPRESSED the encoder keeps its history and takes the new bytes after it.
C14_ResetOnReentry ==
  [][(op' \in CompressedOps /\ err' = NoErr /\ last' = compressed
        /\ Len(Appended) > 0) =>
       /\ fw'.live
       /\ IF last # compressed
          THEN fw'.hist = <<>> /\ fw'.pend = Appended
          ELSE fw'.hist = fw.hist /\ fw'.pend = fw.pend \o Appended]_vars

\* COMPRESSED entered again, after a compressed run in the sink and a block
\* of another kind, with the encoder the first run used
C14_Witness ==
  /\ op = "AddCompressedData"
  /\ err = NoErr
  /\ last = compressed
  /\ fw.hist = <<>>
  /\ Len(fw.pend) > 0
  /\ kinds = {"compressed", "uncompressed"}
  /\ \E i \in 1..Len(Written(w)) : Written(w)[i] >= BlockBase

IsPrefix(s, u) == Len(s) <= Len(u) /\ SubSeq(u, 1, Len(s)) = s

\* what a flush of the encoder writes: the pending bytes as a compressed
\* block, then the sync marker
Flushed == fwEmit(fw) \o syncMarker

\* C15: with last = COMPRESSED and no error, a non-empty AddUncompressedData
\* or AddPrecompressedData of a matching-level segment first flushes the
\* encoder: when the sink takes the flush, the flush precedes every byte the
\* append writes and the encoder has nothing pending; when the sink fails on
\* it, the error is latched, last, crc and size stay, and nothing but (part
\* of) the flush has reached the sink.
C15_FlushBeforeSplice ==
  (last = compressed /\ err = NoErr) =>
    \A n \in DataLens \ {0} :
      \A b1 \in {AddUncompressedData(B, NextData(n)),
                 AddPrecompressedData(B, Segment(n, level))} :
        LET wf == sinkWrite(w, Flushed)
        IN IF sinkErr(wf) # NoErr
           THEN /\ b1.err = sinkErr(wf)
                /\ b1.w = wf
                /\ IsPrefix(Written(wf), Written(w) \o Flushed)
                /\ b1.last = compressed
                /\ b1.crc = crc
                /\ b1.size = size
           ELSE /\ IsPrefix(Written(w) \o Flushed, Written(b1.w))
                /\ b1.err = NoErr =>
                     Len(Written(b1.w)) >= Len(Written(w) \o Flushed) + n
                /\ b1.fw.pend = <<>>
                /\ b1.fw.hist = fw.hist \o fw.pend
                /\ b1.err = NoErr => b1.last \in {uncompressed, precompressed}

\* a flush that the sink failed on
C15_Witness ==
  /\ op = "AddUncompressedData"
  /\ err = ErrIO
  /\ last = compressed
  /\ fw.pend = <<>>
  /\ Len(fw.hist) > 0
  /\ IsPrefix(Written(w), gzipHeader(level) \o fwEmit([fw EXCEPT !.pend = fw.hist, !.hist = <<>>]) \o syncMarker)

WriterOps == {"UncompressedWriter.Write", "CompressedWriter.Write"}

\* C16: in every state, the Write of either adapter returns len(p) and the
\* builder's error after the call: the error already set when there was one,
\* the modify-after-finish error on a builder finished without error; and
\* what the last adapter call returned is the builder's error.
C16_AdapterResult ==
  /\ \A n \in DataLens :
       \A r \in {uncompressedWrite(B, NextData(n)), compressedWrite(B, NextData(n))} :
         /\ r.n = n
         /\ r.err = Err(r.b)
         /\ err # NoErr => r.err = err
         /\ (err = NoErr /\ last = finished) => r.err = ErrFinished
  /\ op \in WriterOps => ret.err = err

\* a chunk written after finalise: counted in full, with the error
C16_Witness ==
  /\ op = "UncompressedWriter.Write"
  /\ ret.n > 0
  /\ ret.err = ErrFinished
  /\ last = finished

\* what finalising the builder b gives: the bytes and error of Bytes on a
\* Builder, the bytes delivered and the error of Close on a Writer
Finalised(b) ==
  IF b.w.kind = KBuffer
  THEN [bytes |-> Bytes(b).ret.bytes, err |-> Bytes(b).ret.err]
  ELSE [bytes |-> Close(b).w.out, err |-> Close(b).err]

\* C17: in every state a chunk written through UncompressedWriter or
\* CompressedWriter leaves the builder exactly as AddUncompressedData or
\* AddCompressedData of the same chunk does, and finalising gives the same,
\* so equal sequences of chunks end in equal states and equal output.
C17_AdaptersForward ==
  \A n \in DataLens :
    /\ uncompressedWrite(B, NextData(n)).b = AddUncompressedData(B, NextData(n))
    /\ compressedWrite(B, NextData(n)).b = AddCompressedData(B, NextData(n))
    /\ Finalised(uncompressedWrite(B, NextData(n)).b)
         = Finalised(AddUncompressedData(B, NextData(n)))
    /\ Finalised(compressedWrite(B, NextData(n)).b)
         = Finalised(AddCompressedData(B, NextData(n)))

C17_Witness ==
  /\ op = "CompressedWriter.Write"
  /\ ret.n > 0
  /\ err = NoErr
  /\ last = compressed
  /\ kinds = {"compressed", "uncompressed"}
  /\ Len(fw.pend) = ret.n

\* the header RFC 1952 asks for at level lv: ID1 ID2 CM, no flags, no MTIME,
\* XFL, OS unknown
HeaderFor(lv) ==
  <<31, 139, 8, 0, 0, 0, 0, 0>>
  \o <<CASE lv = BestCompression -> 2 [] lv = BestSpeed -> 4 [] OTHER -> 0>>
  \o <<255>>

\* C18: the header written for each valid level is the 10 bytes above; a
\* non-raw builder of a valid level has written nothing while last = START,
\* and from the step that leaves START on (a zero-length append included, or
\* finalise) the sink begins with the header, which is followed by whole
\* blocks and the footer only, so it is written once and before everything.
C18_HeaderOnce ==
  /\ \A lv \in ValidLevels : gzipHeader(lv) = HeaderFor(lv)
  /\ (~rawDeflate /\ level \in ValidLevels) =>
       /\ last = start => Written(w) = <<>>
       /\ last # start => IsPrefix(HeaderFor(level), Written(w))
       /\ err = NoErr => StreamFinals.ok
       /\ \A b1 \in AllAppends \cup {IF w.kind = KBuffer THEN Bytes(B).b ELSE Close(B)} :
            (last = start /\ err = NoErr) =>
              /\ b1.last # start
              /\ IsPrefix(HeaderFor(level), Written(b1.w))

C18_Witness ==
  /\ level = BestSpeed
  /\ ~rawDeflate
  /\ op = "Close"
  /\ err = NoErr
  /\ Len(payload) > 0
  /\ Written(w)[9] = 4

\* RFC 1951 stored blocks for d: non-final, LEN and its complement in little
\* endian, LEN bytes; blocks of maxLength bytes and then the rest
RECURSIVE StoredBlocks(_)
StoredBlocks(d) ==
  IF Len(d) = 0 THEN <<>>
  ELSE LET k == IF Len(d) > maxLength THEN maxLength ELSE Len(d)
           c == (Pow16 - 1) - k
       IN <<0, k % Pow8, k \div Pow8, c % Pow8, c \div Pow8>>
          \o SubSeq(d, 1, k)
          \o StoredBlocks(SubSeq(d, k + 1, Len(d)))

\* C19: on an error-free unfinished builder whose tail block is not open for
\* packing, a non-empty AddUncompressedData writes, after the header or the
\* flush it owes, exactly the stored blocks of its data: full blocks of
\* maxLength bytes, then one block with the 1..maxLength bytes left; when a
\* write fails the error is latched and the sink holds a proper prefix of
\* those bytes.  Where only uncompressed data has been appended every stored
\* block in the sink has 1 <= LEN <= maxLength.
C19_StoredBlocks ==
  /\ (err = NoErr /\ last # finished /\ ~(w.kind = KBuffer /\ last = uncompressed)) =>
       \A n \in DataLens \ {0} :
         LET b1 == AddUncompressedData(B, NextData(n))
             full == AfterHeader
                     \o (IF last = compressed THEN Flushed ELSE <<>>)
                     \o StoredBlocks(NextData(n))
         IN IF b1.err = NoErr
            THEN Written(b1.w) = full
            ELSE /\ b1.err = ErrIO
                 /\ IsPrefix(Written(b1.w), full)
                 /\ Written(b1.w) # full
  /\ (err = NoErr /\ last # finished /\ kinds \subseteq {"uncompressed"}) =>
       LET lens == storedLens(Written(w), StreamFirst, StreamLast, <<>>)
       IN /\ StreamFinals.ok
          /\ \A k \in 1..Len(lens) : lens[k] >= 1 /\ lens[k] <= maxLength

\* one append longer than a block, on a Writer: a full block and the rest
C19_Witness ==
  /\ op = "AddUncompressedData"
  /\ err = NoErr
  /\ w.kind = KBufio
  /\ Len(payload) > maxLength
  /\ Len(payload) < 2 * maxLength
  /\ Written(w) = HeaderFor(level) \o StoredBlocks(payload)

\* C20: once last = FINISHED no operation changes last, the sink, crc or
\* size (nor the encoder or the pools: only the error can still be set); and
\* once last has passed HEADER it never is START or HEADER again, nor START
\* once it is HEADER.
C20_FinishedAbsorbing ==
  [][/\ last = finished =>
          /\ last' = finished
          /\ w' = w
          /\ crc' = crc
          /\ size' = size
          /\ fw' = fw
          /\ flatePools' = flatePools
          /\ bufioPool' = bufioPool
          /\ rawDeflate' = rawDeflate
     /\ last \notin {start, header} => last' \notin {start, header}
     /\ last = header => last' # start]_vars

\* a closed Writer that was then called again
C20_Witness ==
  /\ last = finished
  /\ w.kind = KNil
  /\ op = "Close"
  /\ err = ErrFinished
  /\ Len(payload) > 0

\* the encoders in the pools, level by level
RECURSIVE PooledFrom(_)
PooledFrom(l) ==
  IF l > BestCompression THEN <<>> ELSE pools[l] \o PooledFrom(l + 1)

Pooled == PooledFrom(HuffmanOnly)

\* the builder i has had a non-empty AddCompressedData
CalledCompressed(i) ==
  \E k \in 1..Len(calls[i]) :
    calls[i][k].m = "AddCompressedData" /\ Len(calls[i][k].data) > 0

\* who holds what: a builder holds an encoder only after a non-empty
\* AddCompressedData and never once finished; an encoder is of the level of
\* the builder that holds it or of the pool it is in, and it is in one
\* place only
PoolDiscipline ==
  /\ \A i \in Builders :
       LET b == builders[i]
       IN /\ b.fw.live => CalledCompressed(i)
          /\ b.last = finished => ~b.fw.live
          /\ b.fw.live => (b.fw.id \in 1..poolMade /\ madeFor[b.fw.id] = b.level)
          /\ \A j \in Builders \ {i} :
               (b.fw.live /\ builders[j].fw.live) => b.fw.id # builders[j].fw.id
          /\ \A k \in 1..Len(Pooled) : b.fw.live => Pooled[k].id # b.fw.id
  /\ \A l \in ValidLevels :
       \A k \in 1..Len(pools[l]) :
         pools[l][k].id \in 1..poolMade /\ madeFor[pools[l][k].id] = l
  /\ \A k, m \in 1..Len(Pooled) : k # m => Pooled[k].id # Pooled[m].id
  /\ Len(madeFor) = poolMade

\* what a call on builder i does about encoders
PoolMoves ==
  \A i \in Builders :
    actor' = i =>
      LET b == builders[i]
          b1 == builders'[i]
          c == calls'[i][Len(calls'[i])]
      IN \* the other builders are left alone
         /\ \A j \in Builders \ {i} : builders'[j] = builders[j]
         \* acquired by an accepted non-empty AddCompressedData only, from
         \* the pool of the builder's level when it holds one
         /\ (~b.fw.live /\ b1.fw.live) =>
              /\ c.m = "AddCompressedData"
              /\ Len(c.data) > 0
              /\ b1.err = NoErr
              /\ IF Len(pools[b.level]) > 0
                 THEN /\ b1.fw.id = Head(pools[b.level]).id
                      /\ pools' = [pools EXCEPT ![b.level] = Tail(@)]
                      /\ poolMade' = poolMade
                 ELSE /\ b1.fw.id = poolMade + 1
                      /\ pools' = pools
                      /\ poolMade' = poolMade + 1
         /\ (c.m = "AddCompressedData" /\ b1.err = NoErr) => b1.fw.live
         \* retained until finalise
         /\ (b.fw.live /\ b1.last # finished) =>
              (b1.fw.live /\ b1.fw.id = b.fw.id /\ pools' = pools /\ poolMade' = poolMade)
         \* returned once, at the first finalise, to the pool of its level
         /\ (b.last # finished /\ b1.last = finished) =>
              /\ ~b1.fw.live
              /\ poolMade' = poolMade
              /\ IF b.fw.live
                 THEN /\ Len(pools'[b.level]) = Len(pools[b.level]) + 1
                      /\ pools'[b.level][Len(pools'[b.level])].id = b.fw.id
                      /\ SubSeq(pools'[b.level], 1, Len(pools[b.level])) = pools[b.level]
                      /\ \A l \in ValidLevels \ {b.level} : pools'[l] = pools[l]
                 ELSE pools' = pools
         \* a finished builder has nothing to do with encoders
         /\ b.last = finished =>
              (b1.last = finished /\ ~b1.fw.live /\ pools' = pools /\ poolMade' = poolMade)

RECURSIVE Replay(_, _, _)
Replay(b, cs, k) ==
  IF k > Len(cs) THEN b ELSE Replay(Apply(b, cs[k]), cs, k + 1)

\* the builder i had it been the only user of the package: a new builder of
\* its level, empty pools, the same calls
Alone(i) ==
  Replay(newBuilder(newSink(KBuffer, NoLimit), builders[i].level), calls[i], 1)

\* a builder's own state, whichever encoder it was handed
Own(b) == Private([b EXCEPT !.fw.id = 0])

SegmentCalls(i) ==
  {k \in 1..Len(calls[i]) : calls[i][k].m = "AddPrecompressedData"}

SpliceAlone(d) ==
  Bytes(AddPrecompressedData(newBuilder(newSink(KBuffer, NoLimit), d.level), d)).ret

LastCall == IF pwLog = <<>> THEN "new" ELSE pwLog[Len(pwLog)]

\* C23: on a PrecompressedWriter of a valid level, after any Writes, Data
\* returns a segment whose size is the number of bytes written since
\* construction or the last Reset, whose crc is the CRC32 of those bytes,
\* whose level is the writer's and whose bytes decode to them; a builder of
\* that level to which it is appended returns a stream that decodes, footer
\* verified, to exactly those bytes.
C23_WriterData ==
  pw.err = NoErr =>
    /\ pw.size = Len(written)
    /\ pw.crc = crc32Update(Zero32, written)
    /\ ~pwData(pw).nil
    /\ pwData(pw).err = NoErr
    /\ pwData(pw).data.size = Len(written)
    /\ pwData(pw).data.crc = crc32Update(Zero32, written)
    /\ pwData(pw).data.level = pw.level
    /\ flateDecode(pwData(pw).data.bytes \o closeFooter) = [ok |-> TRUE, out |-> written]
    /\ SpliceAlone(pwData(pw).data).err = NoErr
    /\ gzipDecode(SpliceAlone(pwData(pw).data).bytes) = [ok |-> TRUE, out |-> written]
    /\ LastCall = "Data" => (~pwRet.nil /\ pwRet.data = pwData(pw).data)

\* two Writes and then Data
C23_Witness ==
  /\ pwLog = <<"Write", "Write", "Data">>
  /\ Len(written) = MaxTotal
  /\ ~pwRet.nil
  /\ pwRet.data.size = MaxTotal
  /\ Len(pw.fw.hist) = MaxTotal
  /\ pw.fw.pend = <<>>

\* what a flush of the writer's encoder appends to its buffer
PwFlushed(p) == fwEmit(p.fw) \o syncMarker

\* C24: on a writer without error the flush is armed (lastFlush false)
\* except right after a Data; Data flushes exactly when it is armed, so a
\* second Data with no Write in between changes nothing and returns the
\* same level, bytes, size and crc; any Write after a Data, a zero-length
\* one included, arms the flush again and the next Data appends the flush
\* of what was written.
C24_DataRepeatable ==
  pw.err = NoErr =>
    /\ pw.lastFlush <=> LastCall = "Data"
    /\ pwData(pw).pw.lastFlush
    /\ pwData(pw).data.bytes = (IF pw.lastFlush THEN pw.buf ELSE pw.buf \o PwFlushed(pw))
    /\ pwData(pwData(pw).pw).pw = pwData(pw).pw
    /\ pwData(pwData(pw).pw).data = pwData(pw).data
    /\ pwData(pwData(pw).pw).err = NoErr
    /\ \A n \in PwLens :
         /\ ~pwWrite(pwData(pw).pw, PwNext(n)).lastFlush
         /\ pwData(pwWrite(pwData(pw).pw, PwNext(n))).data.bytes
              = pwData(pw).data.bytes \o PwFlushed(pwWrite(pwData(pw).pw, PwNext(n)))
         /\ pwData(pwWrite(pwData(pw).pw, PwNext(n))).data.size = pwData(pw).data.size + n

\* Data twice in a row, then a zero-length Write and Data again: the buffer
\* ends with the flush of nothing
C24_Witness ==
  /\ pwLog = <<"Write", "Data", "Data", "Write", "Data">>
  /\ Len(written) > 0
  /\ Len(pw.buf) > 2 * Len(syncMarker)
  /\ SubSeq(pw.buf, Len(pw.buf) - 9, Len(pw.buf)) = syncMarker \o syncMarker
  /\ ~pwRet.nil
  /\ pwRet.data.bytes = pw.buf

\* s[i..] is whole blocks, none of them final
NonFinalFrom(s, i) ==
  LET f == blockFinals(s, i, Len(s), <<>>)
  IN f.ok /\ \A k \in 1..Len(f.finals) : f.finals[k] = 0

\* s is flushed encoder output: whole non-final blocks, the last one the
\* empty stored block that a flush ends with on a byte boundary
SpliceCompatible(s) ==
  /\ NonFinalFrom(s, 1)
  /\ Len(s) >= Len(syncMarker)
  /\ SubSeq(s, Len(s) - Len(syncMarker) + 1, Len(s)) = syncMarker

\* C25: under every sequence of Write, Data and Reset the writer's buffer
\* holds nothing but flushed non-final blocks; so do the bytes of every
\* PrecompressedData that Data returns, has returned, or that the caller has
\* kept from before; and the blocks a builder has after splicing one are
\* all non-final.
C25_NeverFinal ==
  pw.err = NoErr =>
    /\ pw.buf # <<>> => SpliceCompatible(pw.buf)
    /\ SpliceCompatible(pwData(pw).data.bytes)
    /\ (LastCall = "Data") => SpliceCompatible(pwRet.data.bytes)
    /\ held.kept => SpliceCompatible(HeldBytes)
    /\ LET b1 == AddPrecompressedData(
                   newBuilder(newSink(KBuffer, NoLimit), pw.level), pwData(pw).data)
       IN b1.err = NoErr /\ NonFinalFrom(Written(b1.w), Len(gzipHeader(pw.level)) + 1)

\* a segment returned after a Reset, with one kept from before it
C25_Witness ==
  /\ pwLog = <<"Write", "Data", "Reset", "Write", "Data">>
  /\ held.kept
  /\ held.bufId = 1
  /\ pw.bufId = 2
  /\ Len(written) > 0
  /\ pwRet.data.bytes[1] = BlockBase + Len(written)
  /\ Len(held.written) > 0

\* C26: Reset on a writer with a live encoder gives the writer that
\* NewPrecompressedWriter gives for the same level (size 0, crc 0, flush
\* armed, no error, encoder with nothing in it, empty buffer), on a buffer
\* the writer has not had before; a PrecompressedData the caller kept, read
\* now through the buffer it came from, has the bytes, size and crc it was
\* returned with, whatever Resets and Writes followed, and still splices
\* into a stream that decodes to the bytes it was made of.
C26_ResetFresh ==
  /\ pw.fw.live =>
       /\ pwReset(pw) = [NewPrecompressedWriter(pw.level) EXCEPT !.bufId = pw.bufId + 1]
       /\ pwReset(pw).bufId \notin 1..Len(heap)
       /\ Len(heap) = pw.bufId
       /\ heap[pw.bufId] = pw.buf
       /\ LastCall = "Reset" =>
            /\ pw.size = 0
            /\ pw.crc = Zero32
            /\ ~pw.lastFlush
            /\ pw.err = NoErr
            /\ pw.buf = <<>>
            /\ written = <<>>
  /\ held.kept =>
       /\ HeldBytes = held.data.bytes
       /\ held.data.size = Len(held.written)
       /\ held.data.crc = crc32Update(Zero32, held.written)
       /\ held.data.level = pw.level
       /\ SpliceAlone(HeldData).err = NoErr
       /\ gzipDecode(SpliceAlone(HeldData).bytes) = [ok |-> TRUE, out |-> held.written]

\* a segment kept from the first buffer, then Reset, a longer Write and a
\* Data that returned other bytes
C26_Witness ==
  /\ pwLog = <<"Write", "Data", "Reset", "Write", "Data">>
  /\ held.kept
  /\ held.bufId = 1
  /\ pw.bufId = 2
  /\ Len(held.written) > 0
  /\ Len(written) > Len(held.written)
  /\ pwRet.data.bytes # held.data.bytes
  /\ HeldBytes = held.data.bytes

\* the error the tests expect for the level -100
InvalidLevelMessage ==
  "flate: invalid compression level -100: want value in range [-2, 9]"

\* C27: a PrecompressedWriter made with a level outside
\* HuffmanOnly..BestCompression has the invalid-level error, naming the
\* level, and no encoder from construction on, whatever is called: Reset
\* changes nothing, every Write returns 0 and the error, Data and
\* PrecompressData return nil and the error.
C27_InvalidLevelWriter ==
  /\ ErrLevel(InvalidLevel) = InvalidLevelMessage
  /\ PrecompressData(<<>>, InvalidLevel).nil
  /\ PrecompressData(<<>>, InvalidLevel).err = InvalidLevelMessage
  /\ pw.level \notin ValidLevels =>
       /\ pw = NewPrecompressedWriter(pw.level)
       /\ pw.err = ErrLevel(pw.level)
       /\ ~pw.fw.live
       /\ pwReset(pw) = pw
       /\ \A n \in PwLens :
            /\ pwWriteResult(pw, PwNext(n)) = [pw |-> pw, n |-> 0, err |-> ErrLevel(pw.level)]
            /\ PrecompressData(PwNext(n), pw.level).nil
            /\ PrecompressData(PwNext(n), pw.level).err = ErrLevel(pw.level)
       /\ pwData(pw).pw = pw
       /\ pwData(pw).nil
       /\ pwData(pw).err = ErrLevel(pw.level)
       /\ LastCall = "Write" => (pwRet.n = 0 /\ pwRet.err = ErrLevel(pw.level))
       /\ LastCall = "Data" => (pwRet.nil /\ pwRet.err = ErrLevel(pw.level))
       /\ written = <<>>
       /\ ~held.kept

\* TestPrecompressedWriterResetInvalidLevel, with a Write in between
C27_Witness ==
  /\ pw.level = InvalidLevel
  /\ pwLog = <<"Reset", "Write", "Data">>
  /\ pwRet.nil
  /\ pwRet.err = InvalidLevelMessage

\* a Writer's bufio.Writer is back in its pool exactly when the Writer has
\* been closed, and then b.w is nil
ClosedOnce ==
  /\ bufioPool \in {0, 1}
  /\ bufioPool = 1 <=> w.kind = KNil
  /\ w.kind = KNil => last = finished
  /\ (w.kind = KBufio) => last # finished

\* what Close does, and what calls on a closed Writer do
CloseSteps ==
  /\ (op' = "Close" /\ last # finished) =>
       /\ last' = finished
       /\ bufioPool' = bufioPool + 1
       /\ w'.kind = KNil
       /\ ret'.err = err'
       \* finalise is run: its writes reach the sink, and with no error all
       \* of it is delivered
       /\ IF finish(B).err = NoErr
          THEN /\ err' = NoErr => (w'.buf = <<>> /\ w'.out = Written(finish(B).w))
               /\ err' # NoErr => (err' = ErrIO /\ w'.out = finish(B).w.out)
          ELSE \* finalise failed: no flush
               /\ err' = finish(B).err
               /\ w'.out = finish(B).w.out
               /\ w'.buf = finish(B).w.buf
       /\ err # NoErr => (err' = err /\ w'.out = w.out /\ w'.buf = w.buf)
  /\ (op' = "Close" /\ last = finished) =>
       /\ ret'.err = err
       /\ UNCHANGED <<level, last, rawDeflate, uncompLen, uncompHeaderIdx, w, fw,
                      size, crc, err, flatePools, bufioPool, made>>
  /\ (op' # "Close" /\ w.kind = KNil) =>
       /\ w' = w
       /\ bufioPool' = bufioPool
       /\ last' = finished
       /\ err' = (IF err # NoErr THEN err
                  ELSE IF op' = "RawDeflate" THEN ErrOption ELSE ErrFinished)
  /\ bufioPool' # bufioPool => (op' = "Close" /\ last # finished)

\* C28: the first Close of a Writer finalises, flushes the buffered bytes
\* to the io.Writer only when finalise succeeded, puts the bufio.Writer back
\* once, drops the sink and returns the error; a later Close returns the
\* error the Writer then has and changes nothing; any other call on a
\* closed Writer only sets the modify-after-finish (or option) error.
C28_CloseOnce == []ClosedOnce /\ [][CloseSteps]_vars

\* a Writer closed without error: every byte delivered, the buffer pooled
C28_Witness ==
  /\ op = "Close"
  /\ err = NoErr
  /\ w.kind = KNil
  /\ bufioPool = 1
  /\ w.buf = <<>>
  /\ kinds = AllKinds
  /\ gzipDecode(w.out) = [ok |-> TRUE, out |-> payload]

\* the template's text with every tag replaced by its value
RECURSIVE Substituted(_)
Substituted(j) ==
  IF j > Len(tplValues) THEN tplFrags[j]
  ELSE tplFrags[j] \o tplValues[j].bytes \o Substituted(j + 1)

LongValues == {j \in 1..Len(tplValues) : Len(tplValues[j].bytes) > maxLength}

\* C29 as stated: an execution given a value longer than the length a stored
\* block can carry ends without error, and what it wrote decodes to the
\* template's text with the whole value in the tag's place.
C29_LongValueSucceeds ==
  (tplRet.done /\ LongValues # {}) =>
    /\ tplRet.err = NoErr
    /\ flateDecode(tplOut) = [ok |-> TRUE, out |-> Substituted(1)]

\* C29: an execution that was given a value longer than a stored block can
\* carry has returned.
C29_Witness ==
  /\ tplRet.done
  /\ LongValues # {}
  /\ \E j \in LongValues : tplI >= j

\* what the code does: executions whose values all fit succeed and decode
\* to the substituted text; the first value longer than a stored block's
\* limit ends the execution with the error, nothing of the value written
TplBehaviour ==
  tplRet.done =>
    IF LongValues = {}
    THEN /\ tplRet.err = NoErr
         /\ flateDecode(tplOut) = [ok |-> TRUE, out |-> Substituted(1)]
    ELSE /\ tplRet.err = ErrTooLong
         /\ \A j \in LongValues : tplI <= j
         /\ ~flateDecode(tplOut).ok

\* the positions of the sink bytes old that new does not have unchanged
Rewritten(old, new) == {k \in 1..Len(old) : k > Len(new) \/ new[k] # old[k]}

\* the positions of LEN and NLEN in the header at b.uncompHeaderIdx
TailLenField(b) == (b.uncompHeaderIdx + 2)..(b.uncompHeaderIdx + 5)

\* s ends with t, and what precedes t begins with old
EndsWithAfter(s, t, old) ==
  /\ Len(old) + Len(t) <= Len(s)
  /\ SubSeq(s, Len(s) - Len(t) + 1, Len(s)) = t

\* on a bytes.Buffer with last = uncompressed the block at uncompHeaderIdx is
\* the last thing in the sink and the builder's own: a stored block header
\* with LEN = uncompLen and the last uncompLen bytes appended
OwnTail ==
  (w.kind = KBuffer /\ last = uncompressed /\ err = NoErr) =>
    /\ uncompLen >= 1
    /\ uncompLen <= Len(payload)
    /\ Len(w.out) = uncompHeaderIdx + 5 + uncompLen
    /\ SubSeq(w.out, uncompHeaderIdx + 1, Len(w.out))
         = <<0>> \o LE16(uncompLen) \o LE16(Not16(uncompLen))
           \o SubSeq(payload, Len(payload) - uncompLen + 1, Len(payload))

\* C30: a non-empty AddUncompressedData changes bytes already in the sink
\* only when last = uncompressed on a bytes.Buffer, and then only the LEN and
\* NLEN fields of the tail block, which is the builder's own last stored
\* block; it then fills that block up to maxLength bytes and stores the rest
\* in new blocks.  In every other state (last = start, header, precompressed
\* or compressed, or a sink that is no bytes.Buffer) all the bytes in the
\* sink stay as they are and the data goes, after the header or flush owed,
\* into new stored blocks with headers of their own, the tail bookkeeping
\* pointing behind the old bytes.
C30_PackOwnTail ==
  /\ OwnTail
  /\ (err = NoErr /\ last # finished) =>
       \A n \in DataLens \ {0} :
         LET d == NextData(n)
             b1 == AddUncompressedData(B, d)
             old == Written(w)
             new == Written(b1.w)
             room == Min(maxLength - uncompLen, n)
         IN IF last = uncompressed /\ w.kind = KBuffer
            THEN /\ Rewritten(old, new) \subseteq TailLenField(B)
                 /\ (room = 0) = (Rewritten(old, new) = {})
                 /\ Len(new) >= Len(old)
                 /\ SubSeq(new, uncompHeaderIdx + 1, Len(new))
                      = StoredBlocks(SubSeq(payload, Len(payload) - uncompLen + 1,
                                            Len(payload)) \o Take(d, room))
                        \o StoredBlocks(Drop(d, room))
            ELSE /\ Rewritten(old, new) = {}
                 /\ b1.err = NoErr =>
                      /\ EndsWithAfter(new, StoredBlocks(d), old)
                      /\ b1.w.kind = KBuffer => b1.uncompHeaderIdx >= Len(old)

\* on a bytes.Buffer, stored data after a spliced segment: the tail block
\* lies behind the header, and the sink is more than header and one block
C30_Witness ==
  /\ op = "AddUncompressedData"
  /\ err = NoErr
  /\ w.kind = KBuffer
  /\ kinds = {"precompressed", "uncompressed"}
  /\ last = uncompressed
  /\ uncompHeaderIdx > Len(HeaderFor(level))
  /\ uncompLen = maxLength

\* C31: finish on an unfinished builder whose error is set writes nothing:
\* the sink, delivered and buffered bytes alike, is as it was (no header, no
\* terminator, no footer, nothing of what the encoder holds), the error is
\* the same, and last is finished; the encoder goes back to its pool with
\* its pending bytes still pending.  Bytes then returns nil and the error,
\* and Close the error without flushing the bufio.Writer.  Whenever Bytes
\* has returned with an error set it has returned no bytes.
C31_FinishAfterError ==
  /\ (err # NoErr /\ last # finished) =>
       LET b1 == finish(B)
       IN /\ b1.w = w
          /\ b1.err = err
          /\ b1.last = finished
          /\ ~b1.fw.live
          /\ fw.live => b1.flatePools[level] = Append(flatePools[level], fw)
          /\ w.kind = KBuffer =>
               /\ Bytes(B).ret = [NoRet EXCEPT !.nil = TRUE, !.err = err]
               /\ Bytes(B).b = b1
          /\ w.kind = KBufio =>
               /\ Close(B).err = err
               /\ Close(B).w.out = w.out
               /\ Close(B).last = finished
  /\ (op \in BytesOps /\ err # NoErr) =>
       /\ last = finished
       /\ ret.nil
       /\ ret.bytes = <<>>
       /\ ret.err = err

\* Bytes after a compressed append and a splice of another level: the sink
\* holds the header alone, the appended bytes were never emitted
C31_Witness ==
  /\ op = "Bytes"
  /\ err = ErrMismatch
  /\ kinds = {"compressed"}
  /\ last = finished
  /\ ret.nil
  /\ w.out = gzipHeader(level)

\* C32 as stated: when the encoder's Close or the write of the terminator or
\* of the footer fails in finish, the error is latched and the builder is not
\* finished; finished is entered on a clean close only.
C32_FinishedOnlyOnCleanClose ==
  (err = NoErr /\ last # finished) =>
    LET b1 == finish(B)
    IN /\ b1.err = NoErr => b1.last = finished
       /\ b1.err # NoErr => b1.last # finished

\* C32, amended: when the encoder's Close or the write of the terminator or
\* of the footer fails in finish, the error is latched and the builder is
\* finished all the same, as it is after a clean close; the encoder has gone
\* back to its pool, and a later finish, Bytes or Close changes nothing, so
\* that the close is not tried again.
C32_FailedFinishLatched ==
  (err = NoErr /\ last # finished) =>
    LET b1 == finish(B)
    IN /\ b1.last = finished
       /\ ~b1.fw.live
       /\ b1.err # NoErr =>
            /\ b1.err = ErrIO
            /\ w.kind = KBufio
            /\ finish(b1) = b1
            /\ Close(b1) = b1
            /\ Close(Close(B)) = Close(B)
            /\ Close(B).err = b1.err
            /\ Close(B).last = finished
            /\ Close(B).w = [b1.w EXCEPT !.kind = KNil]

\* Close on a Writer whose io.Writer fails, after compressed appends alone:
\* the encoder's Close overflowed the bufio.Writer and the flush failed
C32_Witness ==
  /\ op = "Close"
  /\ err = ErrIO
  /\ ret.err = ErrIO
  /\ last = finished
  /\ kinds = {"compressed"}
  /\ Len(payload) = MaxTotal
  /\ Len(Written(w)) = bufioSize
  /\ ~fw.live

\* the header of a stored block of n bytes
StoredHeader(n) == <<0>> \o LE16(n) \o LE16(Not16(n))

\* the bookkeeping of builder b describes the last block of its sink
TailRecorded(b) ==
  /\ b.uncompLen >= 1
  /\ b.uncompLen <= maxLength
  /\ b.uncompHeaderIdx + 5 + b.uncompLen = Len(b.w.out)
  /\ SubSeq(b.w.out, b.uncompHeaderIdx + 1, b.uncompHeaderIdx + 5)
       = StoredHeader(b.uncompLen)

\* C33: on an error-free builder over a bytes.Buffer with last =
\* uncompressed, uncompLen is between 1 and maxLength, the five bytes at
\* uncompHeaderIdx are 0, LEN = uncompLen and its complement, and the block
\* ends the buffer.  Extending the block adds the length without wrapping:
\* data that fits leaves the block at uncompLen plus its length, at the same
\* place; data that does not fit fills the block to maxLength exactly and
\* the bookkeeping moves to a new last block further on.
C33_TailBookkeeping ==
  (w.kind = KBuffer /\ last = uncompressed /\ err = NoErr) =>
    /\ TailRecorded(B)
    /\ \A n \in DataLens \ {0} :
         LET b1 == AddUncompressedData(B, NextData(n))
         IN /\ b1.err = NoErr
            /\ b1.last = uncompressed
            /\ TailRecorded(b1)
            /\ IF uncompLen + n <= maxLength
               THEN /\ b1.uncompLen = uncompLen + n
                    /\ b1.uncompHeaderIdx = uncompHeaderIdx
               ELSE /\ b1.uncompHeaderIdx >= uncompHeaderIdx + 5 + maxLength
                    /\ SubSeq(b1.w.out, uncompHeaderIdx + 1, uncompHeaderIdx + 5)
                         = StoredHeader(maxLength)
                    /\ (b1.uncompLen - (uncompLen + n)) % maxLength = 0

\* a last block that is not the first thing after the header and is not
\* full, with data at hand that does not fit into it
C33_Witness ==
  /\ op = "AddUncompressedData"
  /\ w.kind = KBuffer
  /\ last = uncompressed
  /\ err = NoErr
  /\ uncompLen < maxLength
  /\ uncompHeaderIdx > Len(HeaderFor(level))
  /\ \E n \in DataLens : uncompLen + n > maxLength

\* the bytes a step may change: LEN and NLEN of the last block, which lies
\* behind everything else in the sink
Patchable ==
  IF w.kind = KBuffer /\ last = uncompressed /\ err = NoErr
  THEN {k \in TailLenField(B) : k > Len(w.out) - 4 - uncompLen}
  ELSE {}

\* a step of any operation: the bytes the sink has accepted stay, but for
\* the patchable ones; on a sink that is no bytes.Buffer the bytes delivered
\* to the io.Writer and the bytes accepted both only grow
AppendOnly ==
  /\ Rewritten(Written(w), Written(w')) \subseteq Patchable
  /\ w.kind # KBuffer =>
       /\ IsPrefix(w.out, w'.out)
       /\ IsPrefix(Written(w), Written(w'))

\* C34: no operation changes a byte the sink has accepted, except that an
\* append of uncompressed data to a bytes.Buffer builder with last =
\* uncompressed may change the four LEN and NLEN bytes of the header of the
\* last stored block; the GZIP header, the encoder's output, spliced
\* segments and earlier stored blocks all lie before that block and stay as
\* they are, and a builder over another sink changes no byte at all.
C34_AppendOnly == [][AppendOnly]_vars

\* a Write of fewer bytes than the last block now holds, behind compressed
\* and spliced data: the Write has extended the block and patched its header
C34_Witness ==
  /\ op = "UncompressedWriter.Write"
  /\ w.kind = KBuffer
  /\ err = NoErr
  /\ last = uncompressed
  /\ ret.n >= 1
  /\ ret.n < uncompLen
  /\ {"compressed", "precompressed"} \subseteq kinds

====
